---- MODULE Spec2Model ----
(***************************************************************************)
(* The execution core of the NES CPU emulator (Ricoh 2A03 / MOS 6502):     *)
(* register set, flat memory map, opcode table, address resolution, the    *)
(* instruction handlers, step and the run loop.                            *)
(*                                                                         *)
(* Bytes are naturals in 0..255 and words naturals in 0..65535.  Every     *)
(* wrapping operation of the source is written with an explicit modulus;   *)
(* every plain +, - of the source is an overflow site that panics when the *)
(* build has overflow checks (debug) and wraps when it has not (release).  *)
(***************************************************************************)
EXTENDS Integers, Naturals, Sequences, FiniteSets, TLC

VARIABLES
    reg,      \* CPU.reg : RegisterSet  [pc, sp, a, x, y, p]
    mem,      \* CPU.mem : SimpleMap, the non-zero bytes of the array
    fault,    \* "none", or the panic that terminated the process
    build,    \* "debug" (overflow checks on) or "release" (wrapping)
    at,       \* position of the driver / run loop
    call,     \* the last call made on the CPU: [op, arg]
    ret,      \* value returned by the last helper call
    hooks,    \* number of callback invocations of the current run
    steps     \* number of step calls of the current run

vars == <<reg, mem, fault, build, at, call, ret, hooks, steps>>

----------------------------------------------------------------------------
(* Fixed widths and program constants                                      *)

U8 == 256

U16 == 65536

\* SimpleMap<0xFFFF>: the backing array has 0xFFFF elements, indices 0..0xFFFE
MEM_SIZE == 65535

PRG_ROM_ADDR_MIN == 32768

PRG_START_ADDR == 65532

STACK_ADDR_MIN == 256

Byte == 0 .. 255

----------------------------------------------------------------------------
(* Bit operations of u8 (&, |, ^, !)                                       *)

Bit(v, i) == (v \div (2 ^ i)) % 2

BitAnd(v, w) ==
    LET b(i) == Bit(v, i) * Bit(w, i) * (2 ^ i)
    IN  b(0) + b(1) + b(2) + b(3) + b(4) + b(5) + b(6) + b(7)

BitOr(v, w) ==
    LET b(i) == (IF Bit(v, i) + Bit(w, i) > 0 THEN 1 ELSE 0) * (2 ^ i)
    IN  b(0) + b(1) + b(2) + b(3) + b(4) + b(5) + b(6) + b(7)

BitXor(v, w) ==
    LET b(i) == ((Bit(v, i) + Bit(w, i)) % 2) * (2 ^ i)
    IN  b(0) + b(1) + b(2) + b(3) + b(4) + b(5) + b(6) + b(7)

BitNot(v) == 255 - v

----------------------------------------------------------------------------
(* memory.rs : MemoryMap for SimpleMap.  The array starts all zero; mem    *)
(* holds exactly its non-zero bytes, so two equal arrays are equal states. *)

Peek(m, addr) == IF addr \in DOMAIN m THEN m[addr] ELSE 0

Poke(m, addr, val) ==
    IF val = 0
    THEN [k \in (DOMAIN m) \ {addr} |-> m[k]]
    ELSE [k \in (DOMAIN m) \cup {addr} |-> IF k = addr THEN val ELSE m[k]]

SimpleMap_default == [k \in {} |-> 0]

OverflowChecks == build = "debug"

\* self.0[addr] : index out of bounds panics in every build
read_u8(m, addr) ==
    IF addr < MEM_SIZE
    THEN [v |-> Peek(m, addr), fault |-> "none"]
    ELSE [v |-> 0, fault |-> "IndexOutOfBounds"]

write_u8(m, addr, val) ==
    IF addr < MEM_SIZE
    THEN [mem |-> Poke(m, addr, val), fault |-> "none"]
    ELSE [mem |-> m, fault |-> "IndexOutOfBounds"]

\* lo = read_u8(addr); hi = read_u8(addr + 1); from_le_bytes([lo, hi])
read_u16(m, addr) ==
    LET lo == read_u8(m, addr)
        hi == read_u8(m, (addr + 1) % U16)
    IN  IF lo.fault # "none" THEN lo
        ELSE IF addr + 1 >= U16 /\ OverflowChecks
             THEN [v |-> 0, fault |-> "ArithmeticOverflow"]
        ELSE IF hi.fault # "none" THEN hi
        ELSE [v |-> lo.v + 256 * hi.v, fault |-> "none"]

\* write_u8(addr, lo); write_u8(addr + 1, hi)
write_u16(m, addr, val) ==
    LET w1 == write_u8(m, addr, val % 256)
        w2 == write_u8(w1.mem, (addr + 1) % U16, val \div 256)
    IN  IF w1.fault # "none" THEN w1
        ELSE IF addr + 1 >= U16 /\ OverflowChecks
             THEN [mem |-> w1.mem, fault |-> "ArithmeticOverflow"]
        ELSE w2

\* the bytes of data at addr, addr + 1, ... and the bytes of m elsewhere
CopyFromSlice(m, addr, data) ==
    LET span   == addr .. (addr + Len(data) - 1)
        val(k) == IF k \in span THEN data[k - addr + 1] ELSE m[k]
    IN  [k \in {a \in (DOMAIN m) \cup span : val(a) # 0} |-> val(k)]

\* self.0[addr..end].copy_from_slice(data) : the slice panics if end > S
load(m, addr, data) ==
    IF addr + Len(data) <= MEM_SIZE
    THEN [mem |-> CopyFromSlice(m, addr, data), fault |-> "none"]
    ELSE [mem |-> m, fault |-> "IndexOutOfBounds"]

----------------------------------------------------------------------------
(* cpu/reg.rs : RegisterSet                                                *)

RegisterSet_default == [pc |-> 0, sp |-> 255, a |-> 0, x |-> 0, y |-> 0, p |-> 0]

BITMASK_NEGATIVE == 128

BITMASK_OVERFLOW == 64

BITMASK_BREAK == 16

BITMASK_DECIMAL == 8

BITMASK_INTERRUPT == 4

BITMASK_ZERO == 2

BITMASK_CARRY == 1

\* set_flag that clears with the mask itself instead of its complement
set_flag_unnegated_mask(p, bitmask, value) ==
    IF value THEN BitOr(p, bitmask) ELSE BitAnd(p, bitmask)

set_flag(p, bitmask, value) ==
    IF value THEN BitOr(p, bitmask) ELSE BitAnd(p, BitNot(bitmask))

get_negative(p) == BitAnd(p, BITMASK_NEGATIVE) # 0

set_negative(p, value) == set_flag(p, BITMASK_NEGATIVE, value)

get_overflow(p) == BitAnd(p, BITMASK_OVERFLOW) # 0

set_overflow(p, value) == set_flag(p, BITMASK_OVERFLOW, value)

get_decimal(p) == BitAnd(p, BITMASK_DECIMAL) # 0

set_decimal(p, value) == set_flag(p, BITMASK_DECIMAL, value)

get_interrupt(p) == BitAnd(p, BITMASK_INTERRUPT) # 0

set_interrupt(p, value) == set_flag(p, BITMASK_INTERRUPT, value)

get_zero(p) == BitAnd(p, BITMASK_ZERO) # 0

set_zero(p, value) == set_flag(p, BITMASK_ZERO, value)

get_carry(p) == BitAnd(p, BITMASK_CARRY) # 0

set_carry(p, value) == set_flag(p, BITMASK_CARRY, value)

----------------------------------------------------------------------------
(* cpu/ops.rs : the opcode table and the lookup map built from it          *)

NMOS_6502_OPCODES == <<
    [mnemonic |-> "ADC", code |-> 105, bytes |-> 2, cycles |-> 2, page_fault_penalty |-> 0, mode |-> "Immediate"],
    [mnemonic |-> "ADC", code |-> 101, bytes |-> 2, cycles |-> 3, page_fault_penalty |-> 0, mode |-> "ZeroPage"],
    [mnemonic |-> "ADC", code |-> 117, bytes |-> 2, cycles |-> 4, page_fault_penalty |-> 0, mode |-> "ZeroPageX"],
    [mnemonic |-> "ADC", code |-> 109, bytes |-> 3, cycles |-> 4, page_fault_penalty |-> 0, mode |-> "Absolute"],
    [mnemonic |-> "ADC", code |-> 125, bytes |-> 3, cycles |-> 4, page_fault_penalty |-> 1, mode |-> "AbsoluteX"],
    [mnemonic |-> "ADC", code |-> 121, bytes |-> 3, cycles |-> 4, page_fault_penalty |-> 1, mode |-> "AbsoluteY"],
    [mnemonic |-> "ADC", code |-> 97, bytes |-> 2, cycles |-> 6, page_fault_penalty |-> 0, mode |-> "ZeroPageX"],
    [mnemonic |-> "ADC", code |-> 113, bytes |-> 2, cycles |-> 5, page_fault_penalty |-> 1, mode |-> "ZeroPageX"],
    [mnemonic |-> "AND", code |-> 41, bytes |-> 2, cycles |-> 2, page_fault_penalty |-> 0, mode |-> "Immediate"],
    [mnemonic |-> "AND", code |-> 37, bytes |-> 2, cycles |-> 3, page_fault_penalty |-> 0, mode |-> "ZeroPage"],
    [mnemonic |-> "AND", code |-> 53, bytes |-> 2, cycles |-> 4, page_fault_penalty |-> 0, mode |-> "ZeroPageX"],
    [mnemonic |-> "AND", code |-> 45, bytes |-> 3, cycles |-> 4, page_fault_penalty |-> 0, mode |-> "Absolute"],
    [mnemonic |-> "AND", code |-> 61, bytes |-> 3, cycles |-> 4, page_fault_penalty |-> 1, mode |-> "AbsoluteX"],
    [mnemonic |-> "AND", code |-> 57, bytes |-> 3, cycles |-> 4, page_fault_penalty |-> 1, mode |-> "AbsoluteY"],
    [mnemonic |-> "AND", code |-> 33, bytes |-> 2, cycles |-> 6, page_fault_penalty |-> 0, mode |-> "IndirectX"],
    [mnemonic |-> "AND", code |-> 49, bytes |-> 2, cycles |-> 5, page_fault_penalty |-> 1, mode |-> "IndirectX"],
    [mnemonic |-> "ASL", code |-> 10, bytes |-> 1, cycles |-> 2, page_fault_penalty |-> 0, mode |-> "Accumulator"],
    [mnemonic |-> "ASL", code |-> 6, bytes |-> 2, cycles |-> 5, page_fault_penalty |-> 0, mode |-> "ZeroPage"],
    [mnemonic |-> "ASL", code |-> 22, bytes |-> 2, cycles |-> 6, page_fault_penalty |-> 0, mode |-> "ZeroPageX"],
    [mnemonic |-> "ASL", code |-> 14, bytes |-> 3, cycles |-> 6, page_fault_penalty |-> 0, mode |-> "Absolute"],
    [mnemonic |-> "ASL", code |-> 30, bytes |-> 3, cycles |-> 7, page_fault_penalty |-> 0, mode |-> "AbsoluteX"],
    [mnemonic |-> "BIT", code |-> 36, bytes |-> 2, cycles |-> 3, page_fault_penalty |-> 0, mode |-> "ZeroPage"],
    [mnemonic |-> "BIT", code |-> 44, bytes |-> 3, cycles |-> 4, page_fault_penalty |-> 0, mode |-> "Absolute"],
    [mnemonic |-> "BPL", code |-> 16, bytes |-> 2, cycles |-> 2, page_fault_penalty |-> 1, mode |-> "Relative"],
    [mnemonic |-> "BMI", code |-> 48, bytes |-> 2, cycles |-> 2, page_fault_penalty |-> 1, mode |-> "Relative"],
    [mnemonic |-> "BVC", code |-> 80, bytes |-> 2, cycles |-> 2, page_fault_penalty |-> 1, mode |-> "Relative"],
    [mnemonic |-> "BVS", code |-> 112, bytes |-> 2, cycles |-> 2, page_fault_penalty |-> 1, mode |-> "Relative"],
    [mnemonic |-> "BCC", code |-> 144, bytes |-> 2, cycles |-> 2, page_fault_penalty |-> 1, mode |-> "Relative"],
    [mnemonic |-> "BCS", code |-> 176, bytes |-> 2, cycles |-> 2, page_fault_penalty |-> 1, mode |-> "Relative"],
    [mnemonic |-> "BNE", code |-> 208, bytes |-> 2, cycles |-> 2, page_fault_penalty |-> 1, mode |-> "Relative"],
    [mnemonic |-> "BEQ", code |-> 240, bytes |-> 2, cycles |-> 2, page_fault_penalty |-> 1, mode |-> "Relative"],
    [mnemonic |-> "BRK", code |-> 0, bytes |-> 1, cycles |-> 7, page_fault_penalty |-> 0, mode |-> "Implicit"],
    [mnemonic |-> "CMP", code |-> 201, bytes |-> 2, cycles |-> 2, page_fault_penalty |-> 0, mode |-> "Immediate"],
    [mnemonic |-> "CMP", code |-> 197, bytes |-> 2, cycles |-> 3, page_fault_penalty |-> 0, mode |-> "ZeroPage"],
    [mnemonic |-> "CMP", code |-> 213, bytes |-> 2, cycles |-> 4, page_fault_penalty |-> 0, mode |-> "ZeroPageX"],
    [mnemonic |-> "CMP", code |-> 205, bytes |-> 3, cycles |-> 4, page_fault_penalty |-> 0, mode |-> "Absolute"],
    [mnemonic |-> "CMP", code |-> 221, bytes |-> 3, cycles |-> 4, page_fault_penalty |-> 1, mode |-> "AbsoluteX"],
    [mnemonic |-> "CMP", code |-> 217, bytes |-> 3, cycles |-> 4, page_fault_penalty |-> 1, mode |-> "AbsoluteY"],
    [mnemonic |-> "CMP", code |-> 193, bytes |-> 2, cycles |-> 6, page_fault_penalty |-> 0, mode |-> "IndirectX"],
    [mnemonic |-> "CMP", code |-> 209, bytes |-> 2, cycles |-> 5, page_fault_penalty |-> 1, mode |-> "IndirectY"],
    [mnemonic |-> "CPX", code |-> 224, bytes |-> 2, cycles |-> 2, page_fault_penalty |-> 0, mode |-> "Immediate"],
    [mnemonic |-> "CPX", code |-> 228, bytes |-> 2, cycles |-> 3, page_fault_penalty |-> 0, mode |-> "ZeroPage"],
    [mnemonic |-> "CPX", code |-> 236, bytes |-> 3, cycles |-> 4, page_fault_penalty |-> 0, mode |-> "Absolute"],
    [mnemonic |-> "CPY", code |-> 192, bytes |-> 2, cycles |-> 2, page_fault_penalty |-> 0, mode |-> "Immediate"],
    [mnemonic |-> "CPY", code |-> 196, bytes |-> 2, cycles |-> 3, page_fault_penalty |-> 0, mode |-> "ZeroPage"],
    [mnemonic |-> "CPY", code |-> 204, bytes |-> 3, cycles |-> 4, page_fault_penalty |-> 0, mode |-> "Absolute"],
    [mnemonic |-> "DEC", code |-> 198, bytes |-> 2, cycles |-> 5, page_fault_penalty |-> 0, mode |-> "ZeroPage"],
    [mnemonic |-> "DEC", code |-> 214, bytes |-> 2, cycles |-> 6, page_fault_penalty |-> 0, mode |-> "ZeroPageX"],
    [mnemonic |-> "DEC", code |-> 206, bytes |-> 3, cycles |-> 6, page_fault_penalty |-> 0, mode |-> "Absolute"],
    [mnemonic |-> "DEC", code |-> 222, bytes |-> 3, cycles |-> 7, page_fault_penalty |-> 0, mode |-> "AbsoluteX"],
    [mnemonic |-> "EOR", code |-> 73, bytes |-> 2, cycles |-> 2, page_fault_penalty |-> 0, mode |-> "Immediate"],
    [mnemonic |-> "EOR", code |-> 69, bytes |-> 2, cycles |-> 3, page_fault_penalty |-> 0, mode |-> "ZeroPage"],
    [mnemonic |-> "EOR", code |-> 85, bytes |-> 2, cycles |-> 4, page_fault_penalty |-> 0, mode |-> "ZeroPageX"],
    [mnemonic |-> "EOR", code |-> 77, bytes |-> 3, cycles |-> 4, page_fault_penalty |-> 0, mode |-> "Absolute"],
    [mnemonic |-> "EOR", code |-> 93, bytes |-> 3, cycles |-> 4, page_fault_penalty |-> 1, mode |-> "AbsoluteX"],
    [mnemonic |-> "EOR", code |-> 89, bytes |-> 3, cycles |-> 4, page_fault_penalty |-> 1, mode |-> "AbsoluteY"],
    [mnemonic |-> "EOR", code |-> 65, bytes |-> 2, cycles |-> 6, page_fault_penalty |-> 0, mode |-> "IndirectX"],
    [mnemonic |-> "EOR", code |-> 81, bytes |-> 2, cycles |-> 5, page_fault_penalty |-> 1, mode |-> "IndirectY"],
    [mnemonic |-> "CLC", code |-> 24, bytes |-> 1, cycles |-> 2, page_fault_penalty |-> 1, mode |-> "Implicit"],
    [mnemonic |-> "SEC", code |-> 56, bytes |-> 1, cycles |-> 2, page_fault_penalty |-> 1, mode |-> "Implicit"],
    [mnemonic |-> "CLI", code |-> 88, bytes |-> 1, cycles |-> 2, page_fault_penalty |-> 1, mode |-> "Implicit"],
    [mnemonic |-> "SEI", code |-> 120, bytes |-> 1, cycles |-> 2, page_fault_penalty |-> 1, mode |-> "Implicit"],
    [mnemonic |-> "CLV", code |-> 184, bytes |-> 1, cycles |-> 2, page_fault_penalty |-> 1, mode |-> "Implicit"],
    [mnemonic |-> "CLD", code |-> 216, bytes |-> 1, cycles |-> 2, page_fault_penalty |-> 1, mode |-> "Implicit"],
    [mnemonic |-> "SED", code |-> 248, bytes |-> 1, cycles |-> 2, page_fault_penalty |-> 1, mode |-> "Implicit"],
    [mnemonic |-> "INC", code |-> 230, bytes |-> 2, cycles |-> 5, page_fault_penalty |-> 0, mode |-> "ZeroPage"],
    [mnemonic |-> "INC", code |-> 246, bytes |-> 2, cycles |-> 6, page_fault_penalty |-> 0, mode |-> "ZeroPageX"],
    [mnemonic |-> "INC", code |-> 238, bytes |-> 3, cycles |-> 6, page_fault_penalty |-> 0, mode |-> "Absolute"],
    [mnemonic |-> "INC", code |-> 254, bytes |-> 3, cycles |-> 7, page_fault_penalty |-> 0, mode |-> "AbsoluteX"],
    [mnemonic |-> "JMP", code |-> 76, bytes |-> 3, cycles |-> 3, page_fault_penalty |-> 0, mode |-> "Absolute"],
    [mnemonic |-> "JMP", code |-> 108, bytes |-> 3, cycles |-> 3, page_fault_penalty |-> 0, mode |-> "Indirect"],
    [mnemonic |-> "JSR", code |-> 32, bytes |-> 3, cycles |-> 6, page_fault_penalty |-> 0, mode |-> "Absolute"],
    [mnemonic |-> "LDA", code |-> 169, bytes |-> 2, cycles |-> 2, page_fault_penalty |-> 0, mode |-> "Immediate"],
    [mnemonic |-> "LDA", code |-> 165, bytes |-> 2, cycles |-> 3, page_fault_penalty |-> 0, mode |-> "ZeroPage"],
    [mnemonic |-> "LDA", code |-> 181, bytes |-> 2, cycles |-> 4, page_fault_penalty |-> 0, mode |-> "ZeroPageX"],
    [mnemonic |-> "LDA", code |-> 173, bytes |-> 3, cycles |-> 4, page_fault_penalty |-> 0, mode |-> "Absolute"],
    [mnemonic |-> "LDA", code |-> 189, bytes |-> 3, cycles |-> 4, page_fault_penalty |-> 1, mode |-> "AbsoluteX"],
    [mnemonic |-> "LDA", code |-> 185, bytes |-> 3, cycles |-> 4, page_fault_penalty |-> 1, mode |-> "AbsoluteY"],
    [mnemonic |-> "LDA", code |-> 161, bytes |-> 2, cycles |-> 6, page_fault_penalty |-> 0, mode |-> "IndirectX"],
    [mnemonic |-> "LDA", code |-> 177, bytes |-> 2, cycles |-> 5, page_fault_penalty |-> 1, mode |-> "IndirectY"],
    [mnemonic |-> "LDX", code |-> 162, bytes |-> 2, cycles |-> 2, page_fault_penalty |-> 0, mode |-> "Immediate"],
    [mnemonic |-> "LDX", code |-> 166, bytes |-> 2, cycles |-> 3, page_fault_penalty |-> 0, mode |-> "ZeroPage"],
    [mnemonic |-> "LDX", code |-> 182, bytes |-> 2, cycles |-> 4, page_fault_penalty |-> 0, mode |-> "ZeroPageY"],
    [mnemonic |-> "LDX", code |-> 174, bytes |-> 3, cycles |-> 4, page_fault_penalty |-> 0, mode |-> "Absolute"],
    [mnemonic |-> "LDX", code |-> 190, bytes |-> 3, cycles |-> 4, page_fault_penalty |-> 1, mode |-> "AbsoluteY"],
    [mnemonic |-> "LDY", code |-> 160, bytes |-> 2, cycles |-> 2, page_fault_penalty |-> 0, mode |-> "Immediate"],
    [mnemonic |-> "LDY", code |-> 164, bytes |-> 2, cycles |-> 3, page_fault_penalty |-> 0, mode |-> "ZeroPage"],
    [mnemonic |-> "LDY", code |-> 180, bytes |-> 2, cycles |-> 4, page_fault_penalty |-> 0, mode |-> "ZeroPageX"],
    [mnemonic |-> "LDY", code |-> 172, bytes |-> 3, cycles |-> 4, page_fault_penalty |-> 0, mode |-> "Absolute"],
    [mnemonic |-> "LDY", code |-> 188, bytes |-> 3, cycles |-> 4, page_fault_penalty |-> 1, mode |-> "AbsoluteX"],
    [mnemonic |-> "LSR", code |-> 74, bytes |-> 1, cycles |-> 2, page_fault_penalty |-> 0, mode |-> "Accumulator"],
    [mnemonic |-> "LSR", code |-> 70, bytes |-> 2, cycles |-> 5, page_fault_penalty |-> 0, mode |-> "ZeroPage"],
    [mnemonic |-> "LSR", code |-> 86, bytes |-> 2, cycles |-> 6, page_fault_penalty |-> 0, mode |-> "ZeroPageX"],
    [mnemonic |-> "LSR", code |-> 78, bytes |-> 3, cycles |-> 6, page_fault_penalty |-> 0, mode |-> "Absolute"],
    [mnemonic |-> "LSR", code |-> 94, bytes |-> 3, cycles |-> 7, page_fault_penalty |-> 0, mode |-> "AbsoluteX"],
    [mnemonic |-> "NOP", code |-> 234, bytes |-> 1, cycles |-> 2, page_fault_penalty |-> 0, mode |-> "Implicit"],
    [mnemonic |-> "ORA", code |-> 9, bytes |-> 2, cycles |-> 2, page_fault_penalty |-> 0, mode |-> "Immediate"],
    [mnemonic |-> "ORA", code |-> 5, bytes |-> 2, cycles |-> 3, page_fault_penalty |-> 0, mode |-> "ZeroPage"],
    [mnemonic |-> "ORA", code |-> 21, bytes |-> 2, cycles |-> 4, page_fault_penalty |-> 0, mode |-> "ZeroPageX"],
    [mnemonic |-> "ORA", code |-> 13, bytes |-> 3, cycles |-> 4, page_fault_penalty |-> 0, mode |-> "Absolute"],
    [mnemonic |-> "ORA", code |-> 29, bytes |-> 3, cycles |-> 4, page_fault_penalty |-> 1, mode |-> "AbsoluteX"],
    [mnemonic |-> "ORA", code |-> 25, bytes |-> 3, cycles |-> 4, page_fault_penalty |-> 1, mode |-> "AbsoluteY"],
    [mnemonic |-> "ORA", code |-> 1, bytes |-> 2, cycles |-> 6, page_fault_penalty |-> 0, mode |-> "IndirectX"],
    [mnemonic |-> "ORA", code |-> 17, bytes |-> 2, cycles |-> 5, page_fault_penalty |-> 1, mode |-> "IndirectY"],
    [mnemonic |-> "TAX", code |-> 170, bytes |-> 1, cycles |-> 2, page_fault_penalty |-> 0, mode |-> "Implicit"],
    [mnemonic |-> "TXA", code |-> 138, bytes |-> 1, cycles |-> 2, page_fault_penalty |-> 0, mode |-> "Implicit"],
    [mnemonic |-> "DEX", code |-> 202, bytes |-> 1, cycles |-> 2, page_fault_penalty |-> 0, mode |-> "Implicit"],
    [mnemonic |-> "INX", code |-> 232, bytes |-> 1, cycles |-> 2, page_fault_penalty |-> 0, mode |-> "Implicit"],
    [mnemonic |-> "TAY", code |-> 168, bytes |-> 1, cycles |-> 2, page_fault_penalty |-> 0, mode |-> "Implicit"],
    [mnemonic |-> "TYA", code |-> 152, bytes |-> 1, cycles |-> 2, page_fault_penalty |-> 0, mode |-> "Implicit"],
    [mnemonic |-> "DEY", code |-> 136, bytes |-> 1, cycles |-> 2, page_fault_penalty |-> 0, mode |-> "Implicit"],
    [mnemonic |-> "INY", code |-> 200, bytes |-> 1, cycles |-> 2, page_fault_penalty |-> 0, mode |-> "Implicit"],
    [mnemonic |-> "ROL", code |-> 42, bytes |-> 1, cycles |-> 2, page_fault_penalty |-> 0, mode |-> "Accumulator"],
    [mnemonic |-> "ROL", code |-> 38, bytes |-> 2, cycles |-> 5, page_fault_penalty |-> 0, mode |-> "ZeroPage"],
    [mnemonic |-> "ROL", code |-> 54, bytes |-> 2, cycles |-> 6, page_fault_penalty |-> 0, mode |-> "ZeroPageX"],
    [mnemonic |-> "ROL", code |-> 46, bytes |-> 3, cycles |-> 6, page_fault_penalty |-> 0, mode |-> "Absolute"],
    [mnemonic |-> "ROL", code |-> 62, bytes |-> 3, cycles |-> 7, page_fault_penalty |-> 0, mode |-> "AbsoluteX"],
    [mnemonic |-> "ROR", code |-> 106, bytes |-> 1, cycles |-> 2, page_fault_penalty |-> 0, mode |-> "Accumulator"],
    [mnemonic |-> "ROR", code |-> 102, bytes |-> 2, cycles |-> 5, page_fault_penalty |-> 0, mode |-> "ZeroPage"],
    [mnemonic |-> "ROR", code |-> 118, bytes |-> 2, cycles |-> 6, page_fault_penalty |-> 0, mode |-> "ZeroPageX"],
    [mnemonic |-> "ROR", code |-> 110, bytes |-> 3, cycles |-> 6, page_fault_penalty |-> 0, mode |-> "Absolute"],
    [mnemonic |-> "ROR", code |-> 126, bytes |-> 3, cycles |-> 7, page_fault_penalty |-> 0, mode |-> "AbsoluteX"],
    [mnemonic |-> "RTI", code |-> 64, bytes |-> 1, cycles |-> 6, page_fault_penalty |-> 0, mode |-> "Implicit"],
    [mnemonic |-> "RTS", code |-> 96, bytes |-> 1, cycles |-> 6, page_fault_penalty |-> 0, mode |-> "Implicit"],
    [mnemonic |-> "SBC", code |-> 233, bytes |-> 2, cycles |-> 2, page_fault_penalty |-> 0, mode |-> "Immediate"],
    [mnemonic |-> "SBC", code |-> 229, bytes |-> 2, cycles |-> 3, page_fault_penalty |-> 0, mode |-> "ZeroPage"],
    [mnemonic |-> "SBC", code |-> 245, bytes |-> 2, cycles |-> 3, page_fault_penalty |-> 0, mode |-> "ZeroPageX"],
    [mnemonic |-> "SBC", code |-> 237, bytes |-> 3, cycles |-> 4, page_fault_penalty |-> 0, mode |-> "Absolute"],
    [mnemonic |-> "SBC", code |-> 253, bytes |-> 3, cycles |-> 4, page_fault_penalty |-> 1, mode |-> "AbsoluteX"],
    [mnemonic |-> "SBC", code |-> 249, bytes |-> 3, cycles |-> 4, page_fault_penalty |-> 1, mode |-> "AbsoluteY"],
    [mnemonic |-> "SBC", code |-> 225, bytes |-> 2, cycles |-> 6, page_fault_penalty |-> 0, mode |-> "IndirectX"],
    [mnemonic |-> "SBC", code |-> 241, bytes |-> 2, cycles |-> 5, page_fault_penalty |-> 1, mode |-> "IndirectY"],
    [mnemonic |-> "STA", code |-> 133, bytes |-> 2, cycles |-> 3, page_fault_penalty |-> 0, mode |-> "ZeroPage"],
    [mnemonic |-> "STA", code |-> 149, bytes |-> 2, cycles |-> 4, page_fault_penalty |-> 0, mode |-> "ZeroPageX"],
    [mnemonic |-> "STA", code |-> 141, bytes |-> 3, cycles |-> 4, page_fault_penalty |-> 0, mode |-> "Absolute"],
    [mnemonic |-> "STA", code |-> 157, bytes |-> 3, cycles |-> 5, page_fault_penalty |-> 0, mode |-> "AbsoluteX"],
    [mnemonic |-> "STA", code |-> 153, bytes |-> 3, cycles |-> 5, page_fault_penalty |-> 0, mode |-> "AbsoluteY"],
    [mnemonic |-> "STA", code |-> 129, bytes |-> 2, cycles |-> 6, page_fault_penalty |-> 0, mode |-> "IndirectX"],
    [mnemonic |-> "STA", code |-> 145, bytes |-> 2, cycles |-> 6, page_fault_penalty |-> 0, mode |-> "IndirectY"],
    [mnemonic |-> "TXS", code |-> 154, bytes |-> 2, cycles |-> 2, page_fault_penalty |-> 0, mode |-> "Implicit"],
    [mnemonic |-> "TSX", code |-> 186, bytes |-> 2, cycles |-> 2, page_fault_penalty |-> 0, mode |-> "Implicit"],
    [mnemonic |-> "PHA", code |-> 72, bytes |-> 2, cycles |-> 3, page_fault_penalty |-> 0, mode |-> "Implicit"],
    [mnemonic |-> "PLA", code |-> 104, bytes |-> 2, cycles |-> 4, page_fault_penalty |-> 0, mode |-> "Implicit"],
    [mnemonic |-> "PHP", code |-> 8, bytes |-> 2, cycles |-> 3, page_fault_penalty |-> 0, mode |-> "Implicit"],
    [mnemonic |-> "PLP", code |-> 40, bytes |-> 2, cycles |-> 4, page_fault_penalty |-> 0, mode |-> "Implicit"],
    [mnemonic |-> "STX", code |-> 134, bytes |-> 2, cycles |-> 3, page_fault_penalty |-> 0, mode |-> "ZeroPage"],
    [mnemonic |-> "STX", code |-> 150, bytes |-> 2, cycles |-> 4, page_fault_penalty |-> 0, mode |-> "ZeroPageY"],
    [mnemonic |-> "STX", code |-> 142, bytes |-> 3, cycles |-> 4, page_fault_penalty |-> 0, mode |-> "Absolute"],
    [mnemonic |-> "STY", code |-> 132, bytes |-> 2, cycles |-> 3, page_fault_penalty |-> 0, mode |-> "ZeroPage"],
    [mnemonic |-> "STY", code |-> 148, bytes |-> 2, cycles |-> 4, page_fault_penalty |-> 0, mode |-> "ZeroPageY"],
    [mnemonic |-> "STY", code |-> 140, bytes |-> 3, cycles |-> 4, page_fault_penalty |-> 0, mode |-> "Absolute"]
>>

\* a map keyed by the low seven bits of the code
CPU_OPCODES_MAP_low_bits ==
    [key \in {NMOS_6502_OPCODES[i].code % 128 : i \in DOMAIN NMOS_6502_OPCODES} |->
        LET idx == {i \in DOMAIN NMOS_6502_OPCODES :
                       NMOS_6502_OPCODES[i].code % 128 = key}
        IN  NMOS_6502_OPCODES[CHOOSE i \in idx : \A j \in idx : j <= i]]

\* NMOS_6502_OPCODES.iter().map(|op| (op.code, op)).collect() : entries are
\* inserted in table order, so the last entry of a code is the one kept
CPU_OPCODES_MAP ==
    [code \in {NMOS_6502_OPCODES[i].code : i \in DOMAIN NMOS_6502_OPCODES} |->
        LET idx == {i \in DOMAIN NMOS_6502_OPCODES : NMOS_6502_OPCODES[i].code = code}
        IN  NMOS_6502_OPCODES[CHOOSE i \in idx : \A j \in idx : j <= i]]

----------------------------------------------------------------------------
(* cpu.rs : helpers.  A cpu value c is [reg, mem, fault]; a handler that   *)
(* panics returns c as it stood at the panic with the fault recorded.      *)

Panic(c, why) == [c EXCEPT !.fault = why]

is_negative(val) == BitAnd(val, 128) # 0

is_positive(val) == BitAnd(val, 128) = 0

twos_add_overflow_carry(value, operand) ==
    LET val_pos  == is_positive(value)
        op_pos   == is_positive(operand)
        result   == (value + operand) % U8
        carry    == value + operand >= U8
        res_pos  == is_positive(result)
        overflow == IF res_pos THEN ~val_pos /\ ~op_pos ELSE val_pos /\ op_pos
    IN  [result |-> result, overflow |-> overflow, carry |-> carry]

update_zn_from_accumulator(c) ==
    [c EXCEPT !.reg.p = set_zero(set_negative(@, c.reg.a >= 128), c.reg.a = 0)]

update_zn_from_value(c, value) ==
    [c EXCEPT !.reg.p = set_zero(set_negative(@, value >= 128), value = 0)]

\* get_operand_address that has no address for Relative
get_operand_address_relative_fails(c, mode) ==
    LET pc    == c.reg.pc
        b     == read_u8(c.mem, pc)
        w     == read_u16(c.mem, pc)
        Ok(v) == [v |-> v, fault |-> "none"]
        ptrx  == (b.v + c.reg.x) % U8
    IN  CASE mode = "Implicit"    -> [v |-> 0, fault |-> "NoOperandAddress"]
          [] mode = "Accumulator" -> [v |-> 0, fault |-> "NoOperandAddress"]
          [] mode = "Immediate"   -> Ok(pc)
          [] mode = "ZeroPage"    -> b
          [] mode = "ZeroPageX"   ->
                IF b.fault # "none" THEN b ELSE Ok((b.v + c.reg.x) % U8)
          [] mode = "ZeroPageY"   ->
                IF b.fault # "none" THEN b ELSE Ok((b.v + c.reg.y) % U8)
          [] mode = "Relative"    -> [v |-> 0, fault |-> "NoOperandAddress"]
          [] mode = "Absolute"    -> w
          [] mode = "AbsoluteX"   ->
                IF w.fault # "none" THEN w ELSE Ok((w.v + c.reg.x) % U16)
          [] mode = "AbsoluteY"   ->
                IF w.fault # "none" THEN w ELSE Ok((w.v + c.reg.y) % U16)
          [] mode = "Indirect"    ->
                IF w.fault # "none" THEN w ELSE read_u16(c.mem, w.v)
          [] mode = "IndirectX"   ->
                IF b.fault # "none" THEN b
                ELSE Ok(read_u8(c.mem, ptrx).v
                        + 256 * read_u8(c.mem, (ptrx + 1) % U8).v)
          [] mode = "IndirectY"   ->
                IF b.fault # "none" THEN b
                ELSE Ok((read_u8(c.mem, b.v).v
                         + 256 * read_u8(c.mem, (b.v + 1) % U8).v
                         + c.reg.y) % U16)

\* get_operand_address whose indirect pointers do not wrap in page zero
get_operand_address_ptr_no_wrap(c, mode) ==
    LET pc    == c.reg.pc
        b     == read_u8(c.mem, pc)
        w     == read_u16(c.mem, pc)
        Ok(v) == [v |-> v, fault |-> "none"]
        ptrx  == (b.v + c.reg.x) % U8
    IN  CASE mode = "Implicit"    -> [v |-> 0, fault |-> "NoOperandAddress"]
          [] mode = "Accumulator" -> [v |-> 0, fault |-> "NoOperandAddress"]
          [] mode = "Immediate"   -> Ok(pc)
          [] mode = "ZeroPage"    -> b
          [] mode = "ZeroPageX"   ->
                IF b.fault # "none" THEN b ELSE Ok((b.v + c.reg.x) % U8)
          [] mode = "ZeroPageY"   ->
                IF b.fault # "none" THEN b ELSE Ok((b.v + c.reg.y) % U8)
          [] mode = "Relative"    -> Ok(pc)
          [] mode = "Absolute"    -> w
          [] mode = "AbsoluteX"   ->
                IF w.fault # "none" THEN w ELSE Ok((w.v + c.reg.x) % U16)
          [] mode = "AbsoluteY"   ->
                IF w.fault # "none" THEN w ELSE Ok((w.v + c.reg.y) % U16)
          [] mode = "Indirect"    ->
                IF w.fault # "none" THEN w ELSE read_u16(c.mem, w.v)
          [] mode = "IndirectX"   ->
                IF b.fault # "none" THEN b
                ELSE Ok(read_u8(c.mem, ptrx).v
                        + 256 * read_u8(c.mem, ptrx + 1).v)
          [] mode = "IndirectY"   ->
                IF b.fault # "none" THEN b
                ELSE Ok((read_u8(c.mem, b.v).v
                         + 256 * read_u8(c.mem, b.v + 1).v
                         + c.reg.y) % U16)

get_operand_address(c, mode) ==
    LET pc    == c.reg.pc
        b     == read_u8(c.mem, pc)
        w     == read_u16(c.mem, pc)
        Ok(v) == [v |-> v, fault |-> "none"]
        ptrx  == (b.v + c.reg.x) % U8
    IN  CASE mode = "Implicit"    -> [v |-> 0, fault |-> "NoOperandAddress"]
          [] mode = "Accumulator" -> [v |-> 0, fault |-> "NoOperandAddress"]
          [] mode = "Immediate"   -> Ok(pc)
          [] mode = "ZeroPage"    -> b
          [] mode = "ZeroPageX"   ->
                IF b.fault # "none" THEN b ELSE Ok((b.v + c.reg.x) % U8)
          [] mode = "ZeroPageY"   ->
                IF b.fault # "none" THEN b ELSE Ok((b.v + c.reg.y) % U8)
          [] mode = "Relative"    -> Ok(pc)
          [] mode = "Absolute"    -> w
          [] mode = "AbsoluteX"   ->
                IF w.fault # "none" THEN w ELSE Ok((w.v + c.reg.x) % U16)
          [] mode = "AbsoluteY"   ->
                IF w.fault # "none" THEN w ELSE Ok((w.v + c.reg.y) % U16)
          [] mode = "Indirect"    ->
                IF w.fault # "none" THEN w ELSE read_u16(c.mem, w.v)
          [] mode = "IndirectX"   ->
                IF b.fault # "none" THEN b
                ELSE Ok(read_u8(c.mem, ptrx).v
                        + 256 * read_u8(c.mem, (ptrx + 1) % U8).v)
          [] mode = "IndirectY"   ->
                IF b.fault # "none" THEN b
                ELSE Ok((read_u8(c.mem, b.v).v
                         + 256 * read_u8(c.mem, (b.v + 1) % U8).v
                         + c.reg.y) % U16)

get_operand_u8(c, opcode) ==
    LET addr == get_operand_address(c, opcode.mode)
    IN  IF addr.fault # "none" THEN addr ELSE read_u8(c.mem, addr.v)

\* self.reg.pc += opcode.bytes - 1
increment_pc(c, opcode) ==
    LET next == c.reg.pc + (opcode.bytes - 1)
    IN  IF next >= U16 /\ OverflowChecks
        THEN Panic(c, "ArithmeticOverflow")
        ELSE [c EXCEPT !.reg.pc = next % U16]

----------------------------------------------------------------------------
(* cpu.rs : the stack                                                      *)

get_sp(c) == STACK_ADDR_MIN + c.reg.sp

increment_sp(c) == [c EXCEPT !.reg.sp = (@ + 1) % U8]

decrement_sp(c) == [c EXCEPT !.reg.sp = (@ + U8 - 1) % U8]

\* push_u8 that moves the stack pointer before it writes
push_u8_decrements_first(c, value) ==
    LET c1 == decrement_sp(c)
        w  == write_u8(c1.mem, get_sp(c1), value)
    IN  IF w.fault # "none" THEN Panic(c, w.fault)
        ELSE [c1 EXCEPT !.mem = w.mem]

push_u8(c, value) ==
    LET w == write_u8(c.mem, get_sp(c), value)
    IN  IF w.fault # "none" THEN Panic(c, w.fault)
        ELSE decrement_sp([c EXCEPT !.mem = w.mem])

\* push_u16 that pushes the low byte first
push_u16_low_first(c, value) ==
    LET lo == value % 256
        hi == value \div 256
        c1 == push_u8(c, lo)
    IN  IF c1.fault # "none" THEN c1 ELSE push_u8(c1, hi)

\* let [lo, hi] = value.to_le_bytes(); push_u8(hi); push_u8(lo)
push_u16(c, value) ==
    LET lo == value % 256
        hi == value \div 256
        c1 == push_u8(c, hi)
    IN  IF c1.fault # "none" THEN c1 ELSE push_u8(c1, lo)

\* the cpu after the pull and the byte pulled
pull_u8(c) ==
    LET c1 == increment_sp(c)
        r  == read_u8(c1.mem, get_sp(c1))
    IN  [c |-> IF r.fault # "none" THEN Panic(c1, r.fault) ELSE c1, v |-> r.v]

\* lo = pull_u8(); hi = pull_u8(); from_le_bytes([lo, hi])
pull_u16(c) ==
    LET lo == pull_u8(c)
        hi == pull_u8(lo.c)
    IN  IF lo.c.fault # "none" THEN lo
        ELSE [c |-> hi.c, v |-> lo.v + 256 * hi.v]

----------------------------------------------------------------------------
(* cpu.rs : instruction handlers                                           *)

\* do_base_add that forgets the carry out of adding the carry in
do_base_add_partial_carry(c, operand, carry) ==
    LET partial == twos_add_overflow_carry(c.reg.a, operand)
        carried == twos_add_overflow_carry(partial.result, carry)
        c1      == update_zn_from_accumulator([c EXCEPT !.reg.a = carried.result])
    IN  [c1 EXCEPT !.reg.p =
            set_overflow(set_carry(@, partial.carry),
                         partial.overflow \/ carried.overflow)]

do_base_add(c, operand, carry) ==
    LET partial == twos_add_overflow_carry(c.reg.a, operand)
        carried == twos_add_overflow_carry(partial.result, carry)
        c1      == update_zn_from_accumulator([c EXCEPT !.reg.a = carried.result])
    IN  [c1 EXCEPT !.reg.p =
            set_overflow(set_carry(@, partial.carry \/ carried.carry),
                         partial.overflow \/ carried.overflow)]

do_add_sub(c, opcode) ==
    LET o                == get_operand_u8(c, opcode)
        carry_multiplier == IF get_carry(c.reg.p) THEN 1 ELSE 0
    IN  IF o.fault # "none" THEN Panic(c, o.fault)
        ELSE CASE opcode.mnemonic = "ADC" ->
                    increment_pc(do_base_add(c, o.v, 1 * carry_multiplier), opcode)
               [] opcode.mnemonic = "SBC" ->
                    \* !operand + 1
                    IF BitNot(o.v) + 1 >= U8 /\ OverflowChecks
                    THEN Panic(c, "ArithmeticOverflow")
                    ELSE increment_pc(do_base_add(c, (BitNot(o.v) + 1) % U8,
                                                  255 * carry_multiplier), opcode)
               [] OTHER -> Panic(c, "InvalidMnemonicForHandler")

do_and(c, opcode) ==
    LET o == get_operand_u8(c, opcode)
    IN  IF o.fault # "none" THEN Panic(c, o.fault)
        ELSE increment_pc(update_zn_from_accumulator(
                 [c EXCEPT !.reg.a = BitAnd(@, o.v)]), opcode)

\* do_arithmetic_shift that resolves an address in every mode
do_arithmetic_shift_always_resolves(c, opcode) ==
    LET addr    == get_operand_address(c, opcode.mode)
        operand == read_u8(c.mem, addr.v)
        c1      == [c EXCEPT !.reg.p = set_carry(@, BitAnd(c.reg.a, 128) # 0)]
        result  == (operand.v * 2) % U8
        w       == write_u8(c1.mem, addr.v, result)
    IN  IF addr.fault # "none" THEN Panic(c, addr.fault)
        ELSE IF operand.fault # "none" THEN Panic(c, operand.fault)
        ELSE increment_pc(update_zn_from_value(
                 [c1 EXCEPT !.mem = w.mem], result), opcode)

do_arithmetic_shift(c, opcode) ==
    IF opcode.mode = "Accumulator"
    THEN LET c1 == [c EXCEPT !.reg.p = set_carry(@, BitAnd(c.reg.a, 128) # 0)]
             c2 == [c1 EXCEPT !.reg.a = (@ * 2) % U8]
         IN  increment_pc(update_zn_from_accumulator(c2), opcode)
    ELSE LET addr    == get_operand_address(c, opcode.mode)
             operand == read_u8(c.mem, addr.v)
             c1      == [c EXCEPT !.reg.p = set_carry(@, BitAnd(c.reg.a, 128) # 0)]
             result  == (operand.v * 2) % U8
             w       == write_u8(c1.mem, addr.v, result)
         IN  IF addr.fault # "none" THEN Panic(c, addr.fault)
             ELSE IF operand.fault # "none" THEN Panic(c, operand.fault)
             ELSE increment_pc(update_zn_from_value(
                      [c1 EXCEPT !.mem = w.mem], result), opcode)

do_logical_shift(c, opcode) ==
    IF opcode.mode = "Accumulator"
    THEN LET c1 == [c EXCEPT !.reg.p = set_carry(@, BitAnd(c.reg.a, 1) # 0)]
             c2 == [c1 EXCEPT !.reg.a = @ \div 2]
         IN  increment_pc(update_zn_from_accumulator(c2), opcode)
    ELSE LET addr    == get_operand_address(c, opcode.mode)
             operand == read_u8(c.mem, addr.v)
             c1      == [c EXCEPT !.reg.p = set_carry(@, BitAnd(c.reg.a, 1) # 0)]
             result  == operand.v \div 2
             w       == write_u8(c1.mem, addr.v, result)
         IN  IF addr.fault # "none" THEN Panic(c, addr.fault)
             ELSE IF operand.fault # "none" THEN Panic(c, operand.fault)
             ELSE increment_pc(update_zn_from_value(
                      [c1 EXCEPT !.mem = w.mem], result), opcode)

\* do_bit_test that takes N and V from the AND result
do_bit_test_of_and(c, opcode) ==
    LET o  == get_operand_u8(c, opcode)
        p1 == set_zero(c.reg.p, BitAnd(o.v, c.reg.a) # 0)
        p2 == set_negative(p1, BitAnd(BitAnd(o.v, c.reg.a), 128) # 0)
        p3 == set_overflow(p2, BitAnd(BitAnd(o.v, c.reg.a), 64) # 0)
    IN  IF o.fault # "none" THEN Panic(c, o.fault)
        ELSE increment_pc([c EXCEPT !.reg.p = p3], opcode)

do_bit_test(c, opcode) ==
    LET o  == get_operand_u8(c, opcode)
        p1 == set_zero(c.reg.p, BitAnd(o.v, c.reg.a) # 0)
        p2 == set_negative(p1, BitAnd(o.v, 128) # 0)
        p3 == set_overflow(p2, BitAnd(o.v, 64) # 0)
    IN  IF o.fault # "none" THEN Panic(c, o.fault)
        ELSE increment_pc([c EXCEPT !.reg.p = p3], opcode)

BranchMnemonics == {"BPL", "BMI", "BVC", "BVS", "BCC", "BCS", "BNE", "BEQ"}

do_branch(c, opcode) ==
    LET relative_offset == get_operand_u8(c, opcode)
        m     == opcode.mnemonic
        p     == c.reg.p
        taken == CASE m = "BPL" -> ~get_negative(p)
                   [] m = "BMI" -> get_negative(p)
                   [] m = "BVC" -> ~get_overflow(p)
                   [] m = "BVS" -> get_overflow(p)
                   [] m = "BCC" -> ~get_carry(p)
                   [] m = "BCS" -> get_carry(p)
                   [] m = "BNE" -> ~get_zero(p)
                   [] m = "BEQ" -> get_zero(p)
                   [] OTHER -> FALSE
        \* self.reg.pc.wrapping_add(relative_offset as u16)
        c1    == IF taken
                 THEN [c EXCEPT !.reg.pc = (@ + relative_offset.v) % U16]
                 ELSE c
    IN  IF relative_offset.fault # "none" THEN Panic(c, relative_offset.fault)
        ELSE IF m \notin BranchMnemonics THEN Panic(c, "InvalidMnemonicForHandler")
        ELSE increment_pc(c1, opcode)

do_break(c, opcode) ==
    IF c.reg.pc + 1 >= U16 /\ OverflowChecks
    THEN Panic(c, "ArithmeticOverflow")
    ELSE LET c1 == [c EXCEPT !.reg.pc = (@ + 1) % U16]
             c2 == push_u16(c1, c1.reg.pc)
         IN  IF c2.fault # "none" THEN c2
             ELSE push_u8(c2, BitOr(c2.reg.p, 48))

do_compare(c, opcode) ==
    LET o          == get_operand_u8(c, opcode)
        m          == opcode.mnemonic
        base_value == CASE m = "CMP" -> c.reg.a
                        [] m = "CPX" -> c.reg.x
                        [] m = "CPY" -> c.reg.y
                        [] OTHER -> 0
        c1         == [c EXCEPT !.reg.p = set_carry(@, base_value > o.v)]
    IN  IF o.fault # "none" THEN Panic(c, o.fault)
        ELSE IF m \notin {"CMP", "CPX", "CPY"}
             THEN Panic(c, "InvalidMnemonicForHandler")
        \* base_value - operand
        ELSE IF base_value < o.v /\ OverflowChecks
             THEN Panic(c1, "ArithmeticOverflow")
        ELSE increment_pc(update_zn_from_value(
                 c1, (base_value + U8 - o.v) % U8), opcode)

do_crement(c, opcode) ==
    LET addr   == get_operand_address(c, opcode.mode)
        value  == read_u8(c.mem, addr.v)
        m      == opcode.mnemonic
        result == CASE m = "DEC" -> (value.v + 1) % U8
                    [] m = "INC" -> (value.v + U8 - 1) % U8
                    [] OTHER -> 0
        w      == write_u8(c.mem, addr.v, result)
    IN  IF addr.fault # "none" THEN Panic(c, addr.fault)
        ELSE IF value.fault # "none" THEN Panic(c, value.fault)
        ELSE IF m \notin {"DEC", "INC"} THEN Panic(c, "InvalidMnemonicForHandler")
        ELSE increment_pc(update_zn_from_value(
                 [c EXCEPT !.mem = w.mem], result), opcode)

FlagMnemonics == {"CLC", "SEC", "CLI", "SEI", "CLV", "CLD", "SED"}

\* do_update_flag whose CLD arm sets the flag, as the SED arm does
do_update_flag_cld_sets(c, opcode) ==
    LET m  == opcode.mnemonic
        p  == c.reg.p
        p1 == CASE m = "CLC" -> set_carry(p, FALSE)
                [] m = "SEC" -> set_carry(p, TRUE)
                [] m = "CLI" -> set_interrupt(p, FALSE)
                [] m = "SEI" -> set_interrupt(p, TRUE)
                [] m = "CLV" -> set_overflow(p, FALSE)
                [] m = "CLD" -> set_decimal(p, TRUE)
                [] m = "SED" -> set_decimal(p, TRUE)
                [] OTHER -> p
    IN  IF m \notin FlagMnemonics THEN Panic(c, "InvalidMnemonicForHandler")
        ELSE increment_pc([c EXCEPT !.reg.p = p1], opcode)

do_update_flag(c, opcode) ==
    LET m  == opcode.mnemonic
        p  == c.reg.p
        p1 == CASE m = "CLC" -> set_carry(p, FALSE)
                [] m = "SEC" -> set_carry(p, TRUE)
                [] m = "CLI" -> set_interrupt(p, FALSE)
                [] m = "SEI" -> set_interrupt(p, TRUE)
                [] m = "CLV" -> set_overflow(p, FALSE)
                [] m = "CLD" -> set_decimal(p, FALSE)
                [] m = "SED" -> set_decimal(p, TRUE)
                [] OTHER -> p
    IN  IF m \notin FlagMnemonics THEN Panic(c, "InvalidMnemonicForHandler")
        ELSE increment_pc([c EXCEPT !.reg.p = p1], opcode)

do_bitwise_xor(c, opcode) ==
    LET o == get_operand_u8(c, opcode)
    IN  IF o.fault # "none" THEN Panic(c, o.fault)
        ELSE increment_pc(update_zn_from_accumulator(
                 [c EXCEPT !.reg.a = BitXor(@, o.v)]), opcode)

do_jump(c, opcode) ==
    LET destination == get_operand_address(c, opcode.mode)
    IN  IF destination.fault # "none" THEN Panic(c, destination.fault)
        ELSE [c EXCEPT !.reg.pc = destination.v]

\* do_subroutine_jump that pushes the address after the instruction
do_subroutine_jump_pushes_next(c, opcode) ==
    LET destination == get_operand_address(c, opcode.mode)
        c1          == increment_pc(c, opcode)
        c2          == push_u16(c1, c1.reg.pc)
    IN  IF destination.fault # "none" THEN Panic(c, destination.fault)
        ELSE IF c1.fault # "none" THEN c1
        ELSE IF c2.fault # "none" THEN c2
        ELSE [c2 EXCEPT !.reg.pc = destination.v]

do_subroutine_jump(c, opcode) ==
    LET destination == get_operand_address(c, opcode.mode)
        c1          == increment_pc(c, opcode)
        \* self.reg.pc - 1
        c2          == push_u16(c1, (c1.reg.pc + U16 - 1) % U16)
    IN  IF destination.fault # "none" THEN Panic(c, destination.fault)
        ELSE IF c1.fault # "none" THEN c1
        ELSE IF c1.reg.pc = 0 /\ OverflowChecks
             THEN Panic(c1, "ArithmeticOverflow")
        ELSE IF c2.fault # "none" THEN c2
        ELSE [c2 EXCEPT !.reg.pc = destination.v]

\* do_load that sets the flags from the accumulator whatever was loaded
do_load_zn_from_accumulator(c, opcode) ==
    LET o  == get_operand_u8(c, opcode)
        m  == opcode.mnemonic
        c1 == CASE m = "LDA" -> [c EXCEPT !.reg.a = o.v]
                [] m = "LDX" -> [c EXCEPT !.reg.x = o.v]
                [] m = "LDY" -> [c EXCEPT !.reg.y = o.v]
                [] OTHER -> c
    IN  IF o.fault # "none" THEN Panic(c, o.fault)
        ELSE IF m \notin {"LDA", "LDX", "LDY"}
             THEN Panic(c, "InvalidMnemonicForHandler")
        ELSE increment_pc(update_zn_from_accumulator(c1), opcode)

do_load(c, opcode) ==
    LET o  == get_operand_u8(c, opcode)
        m  == opcode.mnemonic
        c1 == CASE m = "LDA" -> [c EXCEPT !.reg.a = o.v]
                [] m = "LDX" -> [c EXCEPT !.reg.x = o.v]
                [] m = "LDY" -> [c EXCEPT !.reg.y = o.v]
                [] OTHER -> c
    IN  IF o.fault # "none" THEN Panic(c, o.fault)
        ELSE IF m \notin {"LDA", "LDX", "LDY"}
             THEN Panic(c, "InvalidMnemonicForHandler")
        ELSE increment_pc(update_zn_from_value(c1, o.v), opcode)

do_nop(c, opcode) == increment_pc(c, opcode)

do_bitwise_or(c, opcode) ==
    LET o == get_operand_u8(c, opcode)
    IN  IF o.fault # "none" THEN Panic(c, o.fault)
        ELSE increment_pc(update_zn_from_accumulator(
                 [c EXCEPT !.reg.a = BitOr(@, o.v)]), opcode)

RegisterMnemonics == {"TAX", "TXA", "TAY", "TYA", "DEX", "DEY", "INX", "INY"}

\* do_register_update whose DEX and DEY add one, as INX and INY do
do_register_update_dec_adds(c, opcode) ==
    LET m     == opcode.mnemonic
        value == CASE m \in {"TAX", "TAY"} -> c.reg.a
                   [] m = "TXA" -> c.reg.x
                   [] m = "DEX" -> (c.reg.x + 1) % U8
                   [] m = "INX" -> (c.reg.x + 1) % U8
                   [] m = "TYA" -> c.reg.y
                   [] m = "DEY" -> (c.reg.y + 1) % U8
                   [] m = "INY" -> (c.reg.y + 1) % U8
                   [] OTHER -> 0
        c1    == CASE m \in {"TAX", "DEX", "INX"} -> [c EXCEPT !.reg.x = value]
                   [] m \in {"TAY", "DEY", "INY"} -> [c EXCEPT !.reg.y = value]
                   [] m \in {"TXA", "TYA"} -> [c EXCEPT !.reg.a = value]
                   [] OTHER -> c
    IN  IF m \notin RegisterMnemonics THEN Panic(c, "InvalidMnemonicForHandler")
        ELSE increment_pc(update_zn_from_value(c1, value), opcode)

do_register_update(c, opcode) ==
    LET m     == opcode.mnemonic
        value == CASE m \in {"TAX", "TAY"} -> c.reg.a
                   [] m = "TXA" -> c.reg.x
                   [] m = "DEX" -> (c.reg.x + 255) % U8
                   [] m = "INX" -> (c.reg.x + 1) % U8
                   [] m = "TYA" -> c.reg.y
                   [] m = "DEY" -> (c.reg.y + 255) % U8
                   [] m = "INY" -> (c.reg.y + 1) % U8
                   [] OTHER -> 0
        c1    == CASE m \in {"TAX", "DEX", "INX"} -> [c EXCEPT !.reg.x = value]
                   [] m \in {"TAY", "DEY", "INY"} -> [c EXCEPT !.reg.y = value]
                   [] m \in {"TXA", "TYA"} -> [c EXCEPT !.reg.a = value]
                   [] OTHER -> c
    IN  IF m \notin RegisterMnemonics THEN Panic(c, "InvalidMnemonicForHandler")
        ELSE increment_pc(update_zn_from_value(c1, value), opcode)

rotate_left(v) == ((v * 2) % U8) + (v \div 128)

rotate_right(v) == (v \div 2) + ((v % 2) * 128)

do_rotate_left(c, opcode) ==
    LET new_carry == BitAnd(c.reg.a, 128) # 0
        c1 == [c EXCEPT !.reg.a =
                  rotate_left(IF get_carry(c.reg.p) THEN BitOr(@, 128)
                                                    ELSE BitAnd(@, 127))]
        c2 == [c1 EXCEPT !.reg.p = set_carry(@, new_carry)]
    IN  increment_pc(update_zn_from_accumulator(c2), opcode)

do_rotate_right(c, opcode) ==
    LET new_carry == BitAnd(c.reg.a, 1) # 0
        c1 == [c EXCEPT !.reg.a =
                  rotate_right(IF get_carry(c.reg.p) THEN BitOr(@, 1)
                                                     ELSE BitAnd(@, 254))]
        c2 == [c1 EXCEPT !.reg.p = set_carry(@, new_carry)]
    IN  increment_pc(update_zn_from_accumulator(c2), opcode)

do_return_from_interrupt(c, opcode) ==
    LET p  == pull_u8(c)
        pc == pull_u16([p.c EXCEPT !.reg.p = p.v])
    IN  IF p.c.fault # "none" THEN p.c
        ELSE IF pc.c.fault # "none" THEN pc.c
        ELSE [pc.c EXCEPT !.reg.pc = pc.v]

do_return_from_subroutine(c, opcode) ==
    LET pc == pull_u16(c)
    IN  IF pc.c.fault # "none" THEN pc.c
        ELSE [pc.c EXCEPT !.reg.pc = (pc.v + 1) % U16]

StackMnemonics == {"TXS", "TSX", "PHA", "PLA", "PHP", "PLP"}

\* do_stack_transfer whose PLP stores the pulled byte unmasked
do_stack_transfer_plp_unmasked(c, opcode) ==
    LET m  == opcode.mnemonic
        pl == pull_u8(c)
        c1 == CASE m = "TXS" -> [c EXCEPT !.reg.sp = c.reg.x]
                [] m = "TSX" -> [c EXCEPT !.reg.x = c.reg.sp]
                [] m = "PHA" -> push_u8(c, c.reg.a)
                [] m = "PLA" -> [pl.c EXCEPT !.reg.a = pl.v]
                [] m = "PHP" -> push_u8(c, BitOr(c.reg.p, 48))
                [] m = "PLP" -> [pl.c EXCEPT !.reg.p = pl.v]
                [] OTHER -> c
    IN  IF m \notin StackMnemonics THEN Panic(c, "InvalidMnemonicForHandler")
        ELSE IF c1.fault # "none" THEN c1
        ELSE increment_pc(c1, opcode)

do_stack_transfer(c, opcode) ==
    LET m  == opcode.mnemonic
        pl == pull_u8(c)
        c1 == CASE m = "TXS" -> [c EXCEPT !.reg.sp = c.reg.x]
                [] m = "TSX" -> [c EXCEPT !.reg.x = c.reg.sp]
                [] m = "PHA" -> push_u8(c, c.reg.a)
                [] m = "PLA" -> [pl.c EXCEPT !.reg.a = pl.v]
                [] m = "PHP" -> push_u8(c, BitOr(c.reg.p, 48))
                [] m = "PLP" -> [pl.c EXCEPT !.reg.p = BitAnd(pl.v, BitNot(48))]
                [] OTHER -> c
    IN  IF m \notin StackMnemonics THEN Panic(c, "InvalidMnemonicForHandler")
        ELSE IF c1.fault # "none" THEN c1
        ELSE increment_pc(c1, opcode)

\* do_store_register that sets Z and N from the stored value
do_store_register_sets_zn(c, opcode) ==
    LET addr == get_operand_address(c, opcode.mode)
        m    == opcode.mnemonic
        val  == CASE m = "STA" -> c.reg.a
                  [] m = "STX" -> c.reg.x
                  [] m = "STY" -> c.reg.y
                  [] OTHER -> 0
        w    == write_u8(c.mem, addr.v, val)
    IN  IF addr.fault # "none" THEN Panic(c, addr.fault)
        ELSE IF m \notin {"STA", "STX", "STY"}
             THEN Panic(c, "InvalidMnemonicForHandler")
        ELSE IF w.fault # "none" THEN Panic(c, w.fault)
        ELSE increment_pc(update_zn_from_value(
                 [c EXCEPT !.mem = w.mem], val), opcode)

do_store_register(c, opcode) ==
    LET addr == get_operand_address(c, opcode.mode)
        m    == opcode.mnemonic
        val  == CASE m = "STA" -> c.reg.a
                  [] m = "STX" -> c.reg.x
                  [] m = "STY" -> c.reg.y
                  [] OTHER -> 0
        w    == write_u8(c.mem, addr.v, val)
    IN  IF addr.fault # "none" THEN Panic(c, addr.fault)
        ELSE IF m \notin {"STA", "STX", "STY"}
             THEN Panic(c, "InvalidMnemonicForHandler")
        ELSE IF w.fault # "none" THEN Panic(c, w.fault)
        ELSE increment_pc([c EXCEPT !.mem = w.mem], opcode)

----------------------------------------------------------------------------
(* cpu.rs : step, load_program, interrupt_reset                            *)

\* step that looks the opcode up before it advances the program counter
step_lookup_before_increment(c, code) ==
    IF c.reg.pc + 1 >= U16 /\ OverflowChecks
    THEN Panic(c, "ArithmeticOverflow")
    ELSE LET c1 == [c EXCEPT !.reg.pc = (@ + 1) % U16]
         IN  IF code \notin DOMAIN CPU_OPCODES_MAP
             THEN Panic(c, "UnimplementedOpcode")
             ELSE LET opcode == CPU_OPCODES_MAP[code]
                      m      == opcode.mnemonic
                  IN  CASE m \in {"ADC", "SBC"}      -> do_add_sub(c1, opcode)
                        [] m = "AND"                 -> do_and(c1, opcode)
                        [] m = "ASL"                 -> do_arithmetic_shift(c1, opcode)
                        [] m = "BIT"                 -> do_bit_test(c1, opcode)
                        [] m \in BranchMnemonics     -> do_branch(c1, opcode)
                        [] m = "BRK"                 -> do_break(c1, opcode)
                        [] m \in {"CMP", "CPX", "CPY"} -> do_compare(c1, opcode)
                        [] m \in {"DEC", "INC"}      -> do_crement(c1, opcode)
                        [] m = "EOR"                 -> do_bitwise_xor(c1, opcode)
                        [] m \in FlagMnemonics       -> do_update_flag(c1, opcode)
                        [] m = "JMP"                 -> do_jump(c1, opcode)
                        [] m = "JSR"                 -> do_subroutine_jump(c1, opcode)
                        [] m \in {"LDA", "LDX", "LDY"} -> do_load(c1, opcode)
                        [] m = "LSR"                 -> do_logical_shift(c1, opcode)
                        [] m = "NOP"                 -> do_nop(c1, opcode)
                        [] m = "ORA"                 -> do_bitwise_or(c1, opcode)
                        [] m \in RegisterMnemonics   -> do_register_update(c1, opcode)
                        [] m = "ROL"                 -> do_rotate_left(c1, opcode)
                        [] m = "ROR"                 -> do_rotate_right(c1, opcode)
                        [] m = "RTI"                 -> do_return_from_interrupt(c1, opcode)
                        [] m = "RTS"                 -> do_return_from_subroutine(c1, opcode)
                        [] m \in {"STA", "STX", "STY"} -> do_store_register(c1, opcode)
                        [] m \in StackMnemonics      -> do_stack_transfer(c1, opcode)

step(c, code) ==
    IF c.reg.pc + 1 >= U16 /\ OverflowChecks
    THEN Panic(c, "ArithmeticOverflow")
    ELSE LET c1 == [c EXCEPT !.reg.pc = (@ + 1) % U16]
         IN  IF code \notin DOMAIN CPU_OPCODES_MAP
             THEN Panic(c1, "UnimplementedOpcode")
             ELSE LET opcode == CPU_OPCODES_MAP[code]
                      m      == opcode.mnemonic
                  IN  CASE m \in {"ADC", "SBC"}      -> do_add_sub(c1, opcode)
                        [] m = "AND"                 -> do_and(c1, opcode)
                        [] m = "ASL"                 -> do_arithmetic_shift(c1, opcode)
                        [] m = "BIT"                 -> do_bit_test(c1, opcode)
                        [] m \in BranchMnemonics     -> do_branch(c1, opcode)
                        [] m = "BRK"                 -> do_break(c1, opcode)
                        [] m \in {"CMP", "CPX", "CPY"} -> do_compare(c1, opcode)
                        [] m \in {"DEC", "INC"}      -> do_crement(c1, opcode)
                        [] m = "EOR"                 -> do_bitwise_xor(c1, opcode)
                        [] m \in FlagMnemonics       -> do_update_flag(c1, opcode)
                        [] m = "JMP"                 -> do_jump(c1, opcode)
                        [] m = "JSR"                 -> do_subroutine_jump(c1, opcode)
                        [] m \in {"LDA", "LDX", "LDY"} -> do_load(c1, opcode)
                        [] m = "LSR"                 -> do_logical_shift(c1, opcode)
                        [] m = "NOP"                 -> do_nop(c1, opcode)
                        [] m = "ORA"                 -> do_bitwise_or(c1, opcode)
                        [] m \in RegisterMnemonics   -> do_register_update(c1, opcode)
                        [] m = "ROL"                 -> do_rotate_left(c1, opcode)
                        [] m = "ROR"                 -> do_rotate_right(c1, opcode)
                        [] m = "RTI"                 -> do_return_from_interrupt(c1, opcode)
                        [] m = "RTS"                 -> do_return_from_subroutine(c1, opcode)
                        [] m \in {"STA", "STX", "STY"} -> do_store_register(c1, opcode)
                        [] m \in StackMnemonics      -> do_stack_transfer(c1, opcode)

\* self.mem.load(0x8000, program); self.mem.write_u16(0xFFFC, 0x8000)
load_program(c, program) ==
    LET l == load(c.mem, PRG_ROM_ADDR_MIN, program)
        w == write_u16(l.mem, 65532, PRG_ROM_ADDR_MIN)
    IN  IF l.fault # "none" THEN Panic(c, l.fault)
        ELSE IF w.fault # "none" THEN Panic([c EXCEPT !.mem = w.mem], w.fault)
        ELSE [c EXCEPT !.mem = w.mem]

\* interrupt_reset that only loads the program counter
interrupt_reset_keeps_registers(c) ==
    LET v == read_u16(c.mem, PRG_START_ADDR)
    IN  IF v.fault # "none" THEN Panic(c, v.fault)
        ELSE [c EXCEPT !.reg.pc = v.v]

\* self.reg.reset(); self.reg.pc = self.mem.read_u16(0xFFFC)
interrupt_reset(c) ==
    LET c1 == [c EXCEPT !.reg = RegisterSet_default]
        v  == read_u16(c1.mem, PRG_START_ADDR)
    IN  IF v.fault # "none" THEN Panic(c1, v.fault)
        ELSE [c1 EXCEPT !.reg.pc = v.v]

----------------------------------------------------------------------------
(* The state machine                                                       *)

\* the cpu value of the current state
cpu == [reg |-> reg, mem |-> mem, fault |-> fault]

\* the cpu value c becomes the next state; a panic ends the process
Becomes(c, pos) ==
    /\ reg' = c.reg
    /\ mem' = c.mem
    /\ fault' = c.fault
    /\ at' = IF c.fault # "none" THEN "panicked" ELSE pos

NoCall == [op |-> "none", arg |-> 0]

\* bounds of the model
MaxProgLen == 3

MaxHooks == 5

\* bytes that programs are made of: BRK, LDA #, ADC #, SEC, INX, TAX,
\* JMP abs, and the data bytes 0x05, 0x80 (no opcode), 0xFF (no opcode)
ProgBytes == {0, 169, 105, 56, 232, 170, 76, 5, 128, 255}

RECURSIVE SeqsUpTo(_, _)
SeqsUpTo(S, n) ==
    IF n = 0 THEN {<<>>}
    ELSE LET shorter == SeqsUpTo(S, n - 1)
         IN  shorter \cup {Append(s, b) : s \in shorter, b \in S}

Programs == SeqsUpTo(ProgBytes, MaxProgLen) \ {<<>>}

\* what the hook passed to run_with_callback may load into memory
HookLoads == {<<254, 1>>}

\* CPU::new()
Init ==
    /\ reg = RegisterSet_default
    /\ mem = SimpleMap_default
    /\ fault = "none"
    /\ build \in {"debug", "release"}
    /\ at = "new"
    /\ call = NoCall
    /\ ret = 0
    /\ hooks = 0
    /\ steps = 0

LoadProgram(program) ==
    /\ at = "new"
    /\ Becomes(load_program(cpu, program), "loaded")
    /\ call' = [op |-> "load_program", arg |-> program]
    /\ UNCHANGED <<build, ret, hooks, steps>>

InterruptReset ==
    /\ at = "loaded"
    /\ Becomes(interrupt_reset(cpu), "idle")
    /\ call' = [op |-> "interrupt_reset", arg |-> 0]
    /\ UNCHANGED <<build, ret, hooks, steps>>

\* run / run_with_callback is entered
Run ==
    /\ at = "idle"
    /\ at' = "callback"
    /\ hooks' = 0
    /\ steps' = 0
    /\ call' = [op |-> "run_with_callback", arg |-> 0]
    /\ UNCHANGED <<reg, mem, fault, build, ret>>

\* callback(self) returns Ok(()), after loading nothing or one of HookLoads
CallbackOk(loads) ==
    /\ at = "callback"
    /\ hooks < MaxHooks
    /\ hooks' = hooks + 1
    /\ LET l == load(mem, loads[1], loads[2])
       IN  Becomes([cpu EXCEPT !.mem = l.mem, !.fault = l.fault], "fetch")
    /\ UNCHANGED <<build, call, ret, steps>>

\* a loop that records the hook's failure and goes on to the fetch
CallbackErr_goes_on ==
    /\ at = "callback"
    /\ hooks < MaxHooks
    /\ hooks' = hooks + 1
    /\ reg' = reg
    /\ mem' = mem
    /\ fault' = "CallbackError"
    /\ at' = "fetch"
    /\ UNCHANGED <<build, call, ret, steps>>

\* callback(self) returns Err: panic!("ERROR in UI Callback")
CallbackErr ==
    /\ at = "callback"
    /\ hooks < MaxHooks
    /\ hooks' = hooks + 1
    /\ Becomes(Panic(cpu, "CallbackError"), "fetch")
    /\ UNCHANGED <<build, call, ret, steps>>

\* the loop iteration that also returns on a byte that is no opcode
FetchStep_returns_on_unknown ==
    /\ at = "fetch"
    /\ LET code == read_u8(mem, reg.pc)
       IN  IF code.fault # "none"
           THEN Becomes(Panic(cpu, code.fault), "fetch") /\ UNCHANGED <<call, steps>>
           ELSE IF code.v = 0 \/ code.v \notin DOMAIN CPU_OPCODES_MAP
           THEN Becomes(cpu, "returned") /\ UNCHANGED <<call, steps>>
           ELSE /\ Becomes(step(cpu, code.v), "callback")
                /\ call' = [op |-> "step", arg |-> code.v]
                /\ steps' = steps + 1
    /\ UNCHANGED <<build, ret, hooks>>

\* a loop that invokes the hook only before its first fetch
FetchStep_without_hook ==
    /\ at = "fetch"
    /\ LET code == read_u8(mem, reg.pc)
       IN  IF code.fault # "none"
           THEN Becomes(Panic(cpu, code.fault), "fetch") /\ UNCHANGED <<call, steps>>
           ELSE IF code.v = 0
           THEN Becomes(cpu, "returned") /\ UNCHANGED <<call, steps>>
           ELSE /\ Becomes(step(cpu, code.v), "fetch")
                /\ call' = [op |-> "step", arg |-> code.v]
                /\ steps' = steps + 1
    /\ UNCHANGED <<build, ret, hooks>>

\* a run loop that hands the 0x00 byte to step, so that do_break runs, and
\* returns after it
FetchStep_breaks_before_return ==
    /\ at = "fetch"
    /\ LET code == read_u8(mem, reg.pc)
       IN  IF code.fault # "none"
           THEN Becomes(Panic(cpu, code.fault), "fetch") /\ UNCHANGED <<call, steps>>
           ELSE IF code.v = 0
           THEN Becomes(step(cpu, 0), "returned") /\ UNCHANGED <<call, steps>>
           ELSE /\ Becomes(step(cpu, code.v), "callback")
                /\ call' = [op |-> "step", arg |-> code.v]
                /\ steps' = steps + 1
    /\ UNCHANGED <<build, ret, hooks>>

\* match self.mem.read_u8(self.reg.pc) { 0x00 => return, opcode => self.step(opcode) }
FetchStep ==
    /\ at = "fetch"
    /\ LET code == read_u8(mem, reg.pc)
       IN  IF code.fault # "none"
           THEN Becomes(Panic(cpu, code.fault), "fetch") /\ UNCHANGED <<call, steps>>
           ELSE IF code.v = 0
           THEN Becomes(cpu, "returned") /\ UNCHANGED <<call, steps>>
           ELSE /\ Becomes(step(cpu, code.v), "callback")
                /\ call' = [op |-> "step", arg |-> code.v]
                /\ steps' = steps + 1
    /\ UNCHANGED <<build, ret, hooks>>

Next ==
    \/ at = "new" /\ \E program \in Programs : LoadProgram(program)
    \/ InterruptReset
    \/ Run
    \/ \E loads \in {<<0, <<>> >>} \cup {<<l[1], <<l[2]>> >> : l \in HookLoads} :
           CallbackOk(loads)
    \/ CallbackErr
    \/ FetchStep

Spec == Init /\ [][Next]_vars

----------------------------------------------------------------------------
(* Sweeps: the run loop entered in a state drawn from bounded sets of      *)
(* register values, with the instruction under study at PC.  Every such    *)
(* state is one a program can bring the CPU to (LDA/LDX/LDY load any byte, *)
(* TXS sets SP, RTI pulls any P, JMP sets PC).                             *)

\* the callback of run(): |_| Ok(())
RunCallback == CallbackOk(<<0, <<>> >>)

\* inside the run loop, the callback has returned Ok once, nothing fetched yet
InLoop ==
    /\ fault = "none"
    /\ build \in {"debug", "release"}
    /\ at = "fetch"
    /\ call = NoCall
    /\ ret = 0
    /\ hooks = 1
    /\ steps = 0

\* registers as after reset with PC at the program origin
RegAtOrigin == [RegisterSet_default EXCEPT !.pc = PRG_ROM_ADDR_MIN]

\* memory holding only the bytes of program at the program origin
MemWith(program) == CopyFromSlice(SimpleMap_default, PRG_ROM_ADDR_MIN, program)

\* the instruction at PC is about to be fetched and its opcode is in the table
AtOpcode == at = "fetch" /\ Peek(mem, reg.pc) \in DOMAIN CPU_OPCODES_MAP

\* the table entry of the byte at PC
OpcodeAtPC == CPU_OPCODES_MAP[Peek(mem, reg.pc)]

\* the operand byte that the instruction at PC works on
OperandAtPC ==
    get_operand_u8([cpu EXCEPT !.reg.pc = (@ + 1) % U16], OpcodeAtPC).v

\* this step executes the instruction at PC to completion
Executes(mnemonics) ==
    /\ AtOpcode
    /\ OpcodeAtPC.mnemonic \in mnemonics
    /\ steps' = steps + 1
    /\ fault' = "none"

\* the bytes around every power-of-two and sign boundary, and two bit patterns
ByteSamples == {0, 1, 2, 63, 64, 85, 126, 127, 128, 129, 170, 191, 192, 253, 254, 255}

\* a byte read as a two's-complement value
Signed(v) == IF v >= 128 THEN v - 256 ELSE v

----------------------------------------------------------------------------
(* ADC and SBC, immediate, over every accumulator and carry and the        *)
(* operands of ByteSamples                                                 *)

InitAdd ==
    /\ InLoop
    /\ \E a0 \in Byte, b \in ByteSamples, p0 \in {0, 1}, code \in {105, 233} :
          /\ reg = [RegAtOrigin EXCEPT !.a = a0, !.p = p0]
          /\ mem = MemWith(<<code, b>>)

NextAdd == FetchStep

SpecAdd == InitAdd /\ [][NextAdd]_vars

\* C1: ADC leaves A = (a + b + c) mod 256 and sets the carry flag exactly
\* when the unsigned sum a + b + c exceeds 255.
AdcSumAndCarry ==
    [][Executes({"ADC"}) =>
         LET sum == reg.a + OperandAtPC + (reg.p % 2)
         IN  /\ reg'.a = sum % 256
             /\ (reg'.p % 2 = 1) <=> (sum > 255)]_vars

\* ADC #$FF executed with A = $FF and carry set: the sum is $1FF
WitAdcCarryOut ==
    /\ call = [op |-> "step", arg |-> 105]
    /\ fault = "none"
    /\ Peek(mem, PRG_ROM_ADDR_MIN + 1) = 255
    /\ reg.a = 255
    /\ reg.p % 2 = 1

\* C2: ADC sets V exactly when the signed sum of a, b and the carry lies
\* outside -128..127.
AdcOverflowIsSigned ==
    [][Executes({"ADC"}) =>
         LET sum == Signed(reg.a) + Signed(OperandAtPC) + (reg.p % 2)
         IN  ((reg'.p \div 64) % 2 = 1) <=> (sum < -128 \/ sum > 127)]_vars

\* C3: SBC with operand b gives the accumulator and the N, Z, C, V flags that
\* ADC gives with operand NOT b from the same state.
SbcIsAdcOfComplement ==
    [][(AtOpcode /\ Peek(mem, reg.pc) = 233 /\ steps' = steps + 1) =>
         LET adc == step([cpu EXCEPT !.mem = Poke(mem, reg.pc + 1,
                                                  255 - Peek(mem, reg.pc + 1))],
                         105)
         IN  /\ fault' = "none"
             /\ reg'.a = adc.reg.a
             /\ reg'.p = adc.reg.p]_vars

----------------------------------------------------------------------------
(* The run loop                                                            *)

\* C4: run and run_with_callback return exactly when a fetch finds 0x00 at
\* PC; the return changes nothing; every non-zero byte fetched is passed to
\* step, once, and the loop does not return on it.
RunReturnsExactlyOnBRK ==
    [][/\ (at' = "returned" /\ at # "returned") => at = "fetch"
       /\ (at = "fetch" /\ at' # "fetch") =>
            LET b == Peek(mem, reg.pc)
            IN  /\ (at' = "returned") <=> (reg.pc < MEM_SIZE /\ b = 0)
                /\ (at' = "returned") =>
                       reg' = reg /\ mem' = mem /\ steps' = steps
                /\ (reg.pc < MEM_SIZE /\ b # 0) =>
                       /\ call' = [op |-> "step", arg |-> b]
                       /\ steps' = steps + 1]_vars

\* a run that executed two instructions and then returned on a 0x00 byte
WitRunReturned ==
    /\ at = "returned"
    /\ steps = 2
    /\ Peek(mem, reg.pc) = 0

----------------------------------------------------------------------------
(* LDA, LDX, LDY in every addressing mode of the table                     *)

LoadCodes == {code \in DOMAIN CPU_OPCODES_MAP :
                CPU_OPCODES_MAP[code].mnemonic \in {"LDA", "LDX", "LDY"}}

\* P with none, all, all but N and Z, only N and Z of its bits set
PSamples == {0, 255, 125, 130}

\* data that the zero-page and absolute modes can reach
DataBytes == (16 :> 128) @@ (17 :> 1) @@ (33 :> 127) @@ (272 :> 255)

InitLoad ==
    /\ InLoop
    /\ \E v \in Byte, p0 \in PSamples, code \in LoadCodes :
          /\ reg = [RegAtOrigin EXCEPT !.a = 17, !.x = 34, !.y = 51, !.p = p0]
          /\ mem = CopyFromSlice(DataBytes, PRG_ROM_ADDR_MIN, <<code, v>>)

NextLoad == RunCallback \/ FetchStep

SpecLoad == InitLoad /\ [][NextLoad]_vars

\* C5: LDA, LDX, LDY copy the operand v into A, X, Y, set Z iff v = 0 and N
\* iff bit 7 of v is set, and leave the other registers, SP, the other six
\* flags and memory unchanged; running [LDA #v, BRK] ends with A = v.
LoadCopiesOperand ==
    [][/\ Executes({"LDA", "LDX", "LDY"}) =>
            LET v == OperandAtPC
                m == OpcodeAtPC.mnemonic
            IN  /\ reg'.a = IF m = "LDA" THEN v ELSE reg.a
                /\ reg'.x = IF m = "LDX" THEN v ELSE reg.x
                /\ reg'.y = IF m = "LDY" THEN v ELSE reg.y
                /\ reg'.sp = reg.sp
                /\ mem' = mem
                /\ ((reg'.p \div 2) % 2 = 1) <=> (v = 0)
                /\ ((reg'.p \div 128) % 2 = 1) <=> ((v \div 128) % 2 = 1)
                /\ reg'.p % 2 = reg.p % 2
                /\ (reg'.p \div 4) % 32 = (reg.p \div 4) % 32
       /\ (at' = "returned" /\ steps = 1 /\ call = [op |-> "step", arg |-> 169]) =>
            /\ reg'.a = Peek(mem, PRG_ROM_ADDR_MIN + 1)
            /\ reg'.pc = PRG_ROM_ADDR_MIN + 2]_vars

\* the run of [LDA #$80, BRK] from P = $7D has returned with A = $80, N set
\* and Z clear
WitLoadNegative ==
    /\ at = "returned"
    /\ call = [op |-> "step", arg |-> 169]
    /\ reg.a = 128
    /\ reg.p = 253
    /\ reg.x = 34
    /\ reg.y = 51

----------------------------------------------------------------------------
(* update_zn_from_value and update_zn_from_accumulator called on their own *)

UpdateZnFromValue(value) ==
    /\ at = "idle"
    /\ Becomes(update_zn_from_value(cpu, value), "done")
    /\ call' = [op |-> "update_zn_from_value", arg |-> value]
    /\ UNCHANGED <<build, ret, hooks, steps>>

UpdateZnFromAccumulator ==
    /\ at = "idle"
    /\ Becomes(update_zn_from_accumulator(cpu), "done")
    /\ call' = [op |-> "update_zn_from_accumulator", arg |-> reg.a]
    /\ UNCHANGED <<build, ret, hooks, steps>>

\* outside the run loop, no call made yet
Idle ==
    /\ fault = "none"
    /\ build \in {"debug", "release"}
    /\ at = "idle"
    /\ call = NoCall
    /\ ret = 0
    /\ hooks = 0
    /\ steps = 0

InitZn ==
    /\ Idle
    /\ \E a0 \in {0, 1, 128, 255}, p0 \in Byte :
          reg = [RegAtOrigin EXCEPT !.a = a0, !.p = p0]
    /\ mem = SimpleMap_default

NextZn ==
    \/ \E value \in Byte : UpdateZnFromValue(value)
    \/ UpdateZnFromAccumulator

SpecZn == InitZn /\ [][NextZn]_vars

\* C6: for every byte v and every prior P, the zero/negative update sets Z
\* iff v = 0 and N iff v >= 0x80 and leaves the other six bits of P unchanged.
UpdateZnSetsOnlyZN ==
    [][(at = "idle" /\ at' = "done") =>
         LET v == call'.arg
         IN  /\ ((reg'.p \div 2) % 2 = 1) <=> (v = 0)
             /\ ((reg'.p \div 128) % 2 = 1) <=> (v >= 128)
             /\ reg'.p % 2 = reg.p % 2
             /\ (reg'.p \div 4) % 32 = (reg.p \div 4) % 32]_vars

\* update_zn_from_value(0) has set Z and cleared N in a P whose other bits
\* are C, D, B and V
WitUpdateZnZero ==
    /\ at = "done"
    /\ call = [op |-> "update_zn_from_value", arg |-> 0]
    /\ reg.p = 91

----------------------------------------------------------------------------
(* push_u16 followed by pull_u16, from every stack pointer                 *)

PushU16(value) ==
    /\ at = "idle"
    /\ Becomes(push_u16(cpu, value), "pushed")
    /\ call' = [op |-> "push_u16", arg |-> value]
    /\ UNCHANGED <<build, ret, hooks, steps>>

PullU16 ==
    /\ at = "pushed"
    /\ LET r == pull_u16(cpu)
       IN  Becomes(r.c, "pulled") /\ ret' = r.v
    /\ call' = [op |-> "pull_u16", arg |-> 0]
    /\ UNCHANGED <<build, hooks, steps>>

WordSamples == {0, 1, 255, 256, 4660, 32768, 65280, 65535}

\* what an earlier use of the stack left in the stack page
StackJunk == (256 :> 170) @@ (257 :> 85) @@ (510 :> 102) @@ (511 :> 153)

InitStack ==
    /\ Idle
    /\ \E sp0 \in Byte : reg = [RegAtOrigin EXCEPT !.sp = sp0]
    /\ mem \in {SimpleMap_default, StackJunk}

NextStack ==
    \/ \E value \in WordSamples : PushU16(value)
    \/ PullU16

SpecStack == InitStack /\ [][NextStack]_vars

\* C7: push_u16(x) followed by pull_u16() returns x and leaves SP at its
\* value before the push, for every starting SP.
PushPullRoundTrip ==
    [][/\ (at = "idle" /\ at' = "pushed") =>
            reg'.sp = (reg.sp + 254) % 256
       /\ (at = "pushed" /\ at' = "pulled") =>
            /\ ret' = call.arg
            /\ reg'.sp = (reg.sp + 2) % 256]_vars

\* $1234 pushed from SP = $00 (high byte at $0100, low byte at $01FF) and
\* pulled again
WitPushPullStraddle ==
    /\ at = "pulled"
    /\ ret = 4660
    /\ reg.sp = 0
    /\ Peek(mem, 256) = 18
    /\ Peek(mem, 511) = 52

----------------------------------------------------------------------------
(* BIT, zero page and absolute                                             *)

InitBit ==
    /\ InLoop
    /\ \E a0 \in ByteSamples, m \in Byte, p0 \in {0, 255}, code \in {36, 44} :
          /\ reg = [RegAtOrigin EXCEPT !.a = a0, !.p = p0]
          /\ mem = Poke(MemWith(<<code, 16, 0>>), 16, m)

NextBit == FetchStep

SpecBit == InitBit /\ [][NextBit]_vars

\* C8: BIT sets N to bit 7 and V to bit 6 of the operand itself and leaves A
\* and memory unchanged.
BitCopiesOperandBits ==
    [][Executes({"BIT"}) =>
         LET m == OperandAtPC
         IN  /\ (reg'.p \div 128) % 2 = (m \div 128) % 2
             /\ (reg'.p \div 64) % 2 = (m \div 64) % 2
             /\ reg'.a = reg.a
             /\ mem' = mem]_vars

\* BIT of the operand $C0 with A = $3F: the AND is zero but N and V are set
WitBitOperandBits ==
    /\ call = [op |-> "step", arg |-> 36]
    /\ fault = "none"
    /\ Peek(mem, 16) = 192
    /\ reg.a = 63
    /\ (reg.p \div 64) % 4 = 3

\* C9: BIT sets Z exactly when (operand AND A) = 0.
BitZeroIsAndZero ==
    [][Executes({"BIT"}) =>
         (((reg'.p \div 2) % 2 = 1) <=> (BitAnd(OperandAtPC, reg.a) = 0))]_vars

----------------------------------------------------------------------------
(* CMP, CPX, CPY, immediate                                                *)

InitCompare ==
    /\ InLoop
    /\ \E r \in ByteSamples, m \in Byte, p0 \in {0, 255}, code \in {201, 224, 192} :
          /\ reg = [RegAtOrigin EXCEPT !.a = r, !.x = (r + 1) % 256,
                                       !.y = (r + 2) % 256, !.p = p0]
          /\ mem = MemWith(<<code, m>>)

NextCompare == FetchStep

SpecCompare == InitCompare /\ [][NextCompare]_vars

\* C10: for every register value r and operand m, r < m included, the compare
\* completes, sets C iff r >= m, Z iff r = m, N to bit 7 of (r - m) mod 256
\* and stores nothing into A, X, Y or memory.
CompareCompletesUnsigned ==
    [][(AtOpcode /\ OpcodeAtPC.mnemonic \in {"CMP", "CPX", "CPY"}
                 /\ steps' = steps + 1) =>
         LET m == OperandAtPC
             r == CASE OpcodeAtPC.mnemonic = "CMP" -> reg.a
                    [] OpcodeAtPC.mnemonic = "CPX" -> reg.x
                    [] OpcodeAtPC.mnemonic = "CPY" -> reg.y
         IN  /\ fault' = "none"
             /\ (reg'.p % 2 = 1) <=> (r >= m)
             /\ ((reg'.p \div 2) % 2 = 1) <=> (r = m)
             /\ (reg'.p \div 128) % 2 = (((r + 256 - m) % 256) \div 128) % 2
             /\ reg'.a = reg.a /\ reg'.x = reg.x /\ reg'.y = reg.y
             /\ mem' = mem]_vars

----------------------------------------------------------------------------
(* INC and DEC in every addressing mode of the table                       *)

\* the address that the addressing mode of the instruction at PC resolves to
AddressAtPC ==
    get_operand_address([cpu EXCEPT !.reg.pc = (@ + 1) % U16], OpcodeAtPC.mode).v

CrementCodes == {code \in DOMAIN CPU_OPCODES_MAP :
                   CPU_OPCODES_MAP[code].mnemonic \in {"DEC", "INC"}}

\* the instruction code with the operand bytes $10, $02 at the origin and
\* the byte b at the address its addressing mode resolves to
MemWithOperand(code, r, b) ==
    LET program == MemWith(<<code, 16, 2>>)
        c       == [reg |-> [r EXCEPT !.pc = PRG_ROM_ADDR_MIN + 1],
                    mem |-> program, fault |-> "none"]
        mode    == CPU_OPCODES_MAP[code].mode
    IN  IF mode \in {"Implicit", "Accumulator"} THEN program
        ELSE Poke(program, get_operand_address(c, mode).v, b)

InitCrement ==
    /\ InLoop
    /\ \E b \in Byte, x0 \in {0, 3}, p0 \in {0, 255}, code \in CrementCodes :
          LET r == [RegAtOrigin EXCEPT !.a = 17, !.x = x0, !.p = p0]
          IN  /\ reg = r
              /\ mem = MemWithOperand(code, r, b)

NextCrement == FetchStep

SpecCrement == InitCrement /\ [][NextCrement]_vars

\* C11: INC replaces the byte b at the resolved address by (b + 1) mod 256
\* and DEC by (b - 1) mod 256; the result is stored at that same address and
\* N, Z are set from the stored result.
CrementAddsOrSubtractsOne ==
    [][Executes({"INC", "DEC"}) =>
         LET addr   == AddressAtPC
             b      == Peek(mem, addr)
             result == IF OpcodeAtPC.mnemonic = "INC"
                       THEN (b + 1) % 256 ELSE (b + 255) % 256
         IN  /\ mem' = Poke(mem, addr, result)
             /\ ((reg'.p \div 2) % 2 = 1) <=> (result = 0)
             /\ ((reg'.p \div 128) % 2 = 1) <=> (result >= 128)]_vars

----------------------------------------------------------------------------
(* The eight branches, over every offset byte                              *)

BranchCodes == {code \in DOMAIN CPU_OPCODES_MAP :
                  CPU_OPCODES_MAP[code].mnemonic \in BranchMnemonics}

\* P with every flag clear, every flag set, and each of N, V, Z, C alone
BranchPSamples == {0, 255, 128, 64, 2, 1}

InitBranch ==
    /\ InLoop
    /\ \E o \in Byte, p0 \in BranchPSamples, code \in BranchCodes :
          /\ reg = [RegAtOrigin EXCEPT !.p = p0]
          /\ mem = MemWith(<<code, o>>)

NextBranch == FetchStep

SpecBranch == InitBranch /\ [][NextBranch]_vars

\* the flag tested by a branch has the polarity on which it branches
BranchTaken(mnemonic, p) ==
    CASE mnemonic = "BPL" -> (p \div 128) % 2 = 0
      [] mnemonic = "BMI" -> (p \div 128) % 2 = 1
      [] mnemonic = "BVC" -> (p \div 64) % 2 = 0
      [] mnemonic = "BVS" -> (p \div 64) % 2 = 1
      [] mnemonic = "BCC" -> p % 2 = 0
      [] mnemonic = "BCS" -> p % 2 = 1
      [] mnemonic = "BNE" -> (p \div 2) % 2 = 0
      [] mnemonic = "BEQ" -> (p \div 2) % 2 = 1

\* C12: a branch whose flag has the branching polarity leaves PC at (address
\* following the operand byte + the offset read as a signed 8-bit value) mod
\* 65536, so offsets $80..$FF branch backwards; otherwise PC is the address
\* following the operand byte; P is unchanged in both cases.
BranchTargetIsSigned ==
    [][(AtOpcode /\ OpcodeAtPC.mnemonic \in BranchMnemonics
                 /\ steps' = steps + 1) =>
         LET o     == Peek(mem, (reg.pc + 1) % U16)
             after == (reg.pc + 2) % U16
         IN  /\ fault' = "none"
             /\ reg'.pc = IF BranchTaken(OpcodeAtPC.mnemonic, reg.p)
                          THEN (after + Signed(o) + U16) % U16
                          ELSE after
             /\ reg'.p = reg.p]_vars

----------------------------------------------------------------------------
(* ASL and LSR in every addressing mode of the table                       *)

ShiftCodes == {code \in DOMAIN CPU_OPCODES_MAP :
                 CPU_OPCODES_MAP[code].mnemonic \in {"ASL", "LSR"}}

\* accumulators whose bits 7 and 0 are both clear, both set, and mixed
AccSamples == {0, 129, 85, 170}

InitShift ==
    /\ InLoop
    /\ \E b \in Byte, a0 \in AccSamples, p0 \in {0, 255}, code \in ShiftCodes :
          LET r == [RegAtOrigin EXCEPT !.a = a0, !.x = 3, !.p = p0]
          IN  /\ reg = r
              /\ mem = MemWithOperand(code, r, b)

NextShift == FetchStep

SpecShift == InitShift /\ [][NextShift]_vars

\* C13: ASL and LSR shift A (Accumulator mode) or the byte at the resolved
\* address (A unchanged); the new carry is the bit shifted out of that value,
\* bit 7 for ASL and bit 0 for LSR, whatever A holds; the result is written
\* back to the same place and N, Z are set from it.
ShiftCarryIsBitShiftedOut ==
    [][Executes({"ASL", "LSR"}) =>
         LET acc    == OpcodeAtPC.mode = "Accumulator"
             addr   == IF acc THEN 0 ELSE AddressAtPC
             v      == IF acc THEN reg.a ELSE Peek(mem, addr)
             asl    == OpcodeAtPC.mnemonic = "ASL"
             result == IF asl THEN (v * 2) % 256 ELSE v \div 2
             out    == IF asl THEN v \div 128 ELSE v % 2
         IN  /\ reg'.p % 2 = out
             /\ reg'.a = IF acc THEN result ELSE reg.a
             /\ mem' = IF acc THEN mem ELSE Poke(mem, addr, result)
             /\ ((reg'.p \div 2) % 2 = 1) <=> (result = 0)
             /\ ((reg'.p \div 128) % 2 = 1) <=> (result >= 128)]_vars

----------------------------------------------------------------------------
(* ROL and ROR in every addressing mode of the table                       *)

RotateCodes == {code \in DOMAIN CPU_OPCODES_MAP :
                  CPU_OPCODES_MAP[code].mnemonic \in {"ROL", "ROR"}}

InitRotate ==
    /\ InLoop
    /\ \E b \in Byte, a0 \in AccSamples, p0 \in {0, 1, 254, 255}, code \in RotateCodes :
          LET r == [RegAtOrigin EXCEPT !.a = a0, !.x = 3, !.p = p0]
          IN  /\ reg = r
              /\ mem = MemWithOperand(code, r, b)

NextRotate == FetchStep

SpecRotate == InitRotate /\ [][NextRotate]_vars

\* C14: ROL and ROR rotate the value selected by the addressing mode, A for
\* Accumulator and otherwise the byte at the resolved address with A
\* unchanged; the result is ((v << 1) | carry) mod 256 for ROL and
\* (v >> 1) | (carry << 7) for ROR, written back to that same place; the new
\* carry is the evicted bit and N, Z are set from the result.
RotateActsOnAddressedValue ==
    [][Executes({"ROL", "ROR"}) =>
         LET acc    == OpcodeAtPC.mode = "Accumulator"
             addr   == IF acc THEN 0 ELSE AddressAtPC
             v      == IF acc THEN reg.a ELSE Peek(mem, addr)
             rol    == OpcodeAtPC.mnemonic = "ROL"
             cin    == reg.p % 2
             result == IF rol THEN ((v * 2) % 256) + cin
                              ELSE (v \div 2) + (128 * cin)
             out    == IF rol THEN v \div 128 ELSE v % 2
         IN  /\ reg'.p % 2 = out
             /\ reg'.a = IF acc THEN result ELSE reg.a
             /\ mem' = IF acc THEN mem ELSE Poke(mem, addr, result)
             /\ ((reg'.p \div 2) % 2 = 1) <=> (result = 0)
             /\ ((reg'.p \div 128) % 2 = 1) <=> (result >= 128)]_vars

----------------------------------------------------------------------------
(* JSR and RTS: subroutines nested to a depth, called once or twice        *)

\* deepest nesting of the subroutines
MaxDepth == 2

\* the address of the i-th JSR of the main program, i = 0, 1
MainSite(i) == PRG_ROM_ADDR_MIN + (3 * i)

\* the address of the subroutine of nesting level i
Sub(i) == PRG_ROM_ADDR_MIN + (16 * i)

JSR(target) == <<32, target % 256, target \div 256>>

RECURSIVE SubMem(_, _, _)
\* m with the subroutines of levels i..k: each calls the next and returns,
\* the innermost only returns
SubMem(m, i, k) ==
    IF i > k THEN m
    ELSE SubMem(CopyFromSlice(m, Sub(i),
                              IF i < k THEN JSR(Sub(i + 1)) \o <<96>> ELSE <<96>>),
                i + 1, k)

\* the main program calls Sub(1) calls times and ends with BRK
MainProgram(calls) ==
    IF calls = 1 THEN JSR(Sub(1)) \o <<0>>
    ELSE JSR(Sub(1)) \o JSR(Sub(1)) \o <<0>>

InitSub ==
    /\ InLoop
    /\ \E sp0 \in Byte, k \in 1 .. MaxDepth, calls \in {1, 2}, junk \in {SimpleMap_default, StackJunk} :
          /\ reg = [RegAtOrigin EXCEPT !.sp = sp0]
          /\ mem = SubMem(CopyFromSlice(junk, PRG_ROM_ADDR_MIN, MainProgram(calls)), 1, k)

NextSub == RunCallback \/ FetchStep

SpecSub == InitSub /\ [][NextSub]_vars

\* the nesting depth of the program in memory: the level that only returns
SubDepth == CHOOSE k \in 1 .. MaxDepth : Peek(mem, Sub(k)) = 96

\* the address of the JSR that calls from nesting level d, during the r-th
\* call of the main program
CallSite(d, r) == IF d = 0 THEN MainSite(r) ELSE Sub(d)

\* C15: a JSR at address p pushes p + 2 and sets PC to the target; an RTS
\* executed when SP has the value the JSR left sets PC to p + 3 and restores
\* SP; k nested JSRs followed by k RTSs return last-in-first-out, each to
\* the instruction after its own JSR.
JsrRtsReturnInOrder ==
    [][/\ (AtOpcode /\ OpcodeAtPC.mnemonic \in {"JSR", "RTS"}
                    /\ steps' = steps + 1) => fault' = "none"
       /\ Executes({"JSR"}) =>
            LET p  == reg.pc
                hi == STACK_ADDR_MIN + reg.sp
                lo == STACK_ADDR_MIN + ((reg.sp + 255) % 256)
            IN  /\ mem' = Poke(Poke(mem, hi, ((p + 2) % U16) \div 256),
                               lo, (p + 2) % 256)
                /\ reg'.sp = (reg.sp + 254) % 256
                /\ reg'.pc = Peek(mem, p + 1) + (256 * Peek(mem, p + 2))
       /\ Executes({"RTS"}) =>
            LET k == SubDepth
                r == steps \div (2 * k)
                \* JSRs not yet returned from, this RTS included
                d == (2 * k) - (steps % (2 * k))
            IN  /\ steps % (2 * k) >= k
                /\ reg'.pc = CallSite(d - 1, r) + 3
                /\ reg'.sp = (reg.sp + 2) % 256
                /\ mem' = mem]_vars

\* two nested subroutines were called from SP = $00 and have both returned:
\* the run ended at the BRK after the first JSR with SP back at $00
WitNestedReturn ==
    /\ at = "returned"
    /\ steps = 4
    /\ SubDepth = 2
    /\ reg.pc = MainSite(1)
    /\ reg.sp = 0
    /\ Peek(mem, 256) = 128
    /\ Peek(mem, 511) = 2
    /\ Peek(mem, 510) = 128
    /\ Peek(mem, 509) = 18

----------------------------------------------------------------------------
(* BRK reached by the run loop                                             *)

\* C16: when execution reaches a BRK opcode, PC is incremented, the 16-bit
\* PC is pushed, then P with bits 4 and 5 forced to 1 is pushed (SP
\* decreases by 3, the P register is unchanged), and only then does
\* execution halt.
BreakPushesBeforeHalt ==
    [][(at = "fetch" /\ reg.pc < MEM_SIZE /\ Peek(mem, reg.pc) = 0
                     /\ at' = "returned") =>
         LET top(i) == STACK_ADDR_MIN + ((reg.sp + 256 - i) % 256)
         IN  /\ reg'.pc \in {(reg.pc + 1) % U16, (reg.pc + 2) % U16}
             /\ Peek(mem', top(0)) = reg'.pc \div 256
             /\ Peek(mem', top(1)) = reg'.pc % 256
             /\ Peek(mem', top(2)) = BitOr(reg.p, 48)
             /\ reg'.sp = (reg.sp + 253) % 256
             /\ reg'.p = reg.p]_vars

----------------------------------------------------------------------------
(* step called directly by the owner of the CPU: BRK, then RTI             *)

\* cpu.step(code), outside the run loop
StepCall(code) ==
    /\ at \in {"idle", "stepped"}
    /\ Becomes(step(cpu, code), "stepped")
    /\ call' = [op |-> "step", arg |-> code]
    /\ steps' = steps + 1
    /\ UNCHANGED <<build, ret, hooks>>

\* stack pointers at and around the ends of the stack page
SpSamples == {255, 254, 128, 3, 2, 1, 0}

\* status bytes whose bits 4 and 5 are clear
StatusBytes == {p \in Byte : (p \div 16) % 4 = 0}

InitInterrupt ==
    /\ Idle
    /\ \E sp0 \in SpSamples, p0 \in StatusBytes, pc0 \in {PRG_ROM_ADDR_MIN, 1791} :
          reg = [RegAtOrigin EXCEPT !.sp = sp0, !.p = p0, !.pc = pc0]
    /\ mem \in {SimpleMap_default, StackJunk}

NextInterrupt ==
    \/ steps = 0 /\ StepCall(0)
    \/ steps = 1 /\ StepCall(64)

SpecInterrupt == InitInterrupt /\ [][NextInterrupt]_vars

\* C17: RTI sets P to the first byte pulled and PC to the 16-bit value pulled
\* next (low byte first, no +1), increasing SP by 3; so step(BRK) followed at
\* once by step(RTI) restores SP and P to their values before the BRK and
\* sets PC to the address BRK pushed.
BreakThenRtiRestores ==
    [][/\ (steps = 0 /\ steps' = 1) =>
            \* what BRK leaves: P untouched, three bytes pushed
            /\ fault' = "none"
            /\ reg'.p = reg.p
            /\ reg'.sp = (reg.sp + 253) % 256
       /\ (steps = 1 /\ steps' = 2) =>
            LET top(i) == STACK_ADDR_MIN + ((reg.sp + i) % 256)
            IN  /\ fault' = "none"
                /\ reg'.p = Peek(mem, top(1))
                /\ reg'.pc = Peek(mem, top(2)) + (256 * Peek(mem, top(3)))
                /\ reg'.sp = (reg.sp + 3) % 256
                \* P and PC as they were when BRK pushed them
                /\ reg'.p = reg.p
                /\ reg'.pc = reg.pc]_vars

----------------------------------------------------------------------------
(* PHP, PLP, TXS and TSX in the run loop                                   *)

\* TSX; PHP; PLP; BRK and TXS; BRK.  The table gives these instructions two
\* bytes, so each is followed by a byte that is never fetched.
StackPrograms == {<<186, 234, 8, 234, 40, 234, 0>>, <<154, 234, 0>>}

InitStackOps ==
    /\ InLoop
    /\ \E sp0 \in {255, 1, 0}, x0 \in {0, 200}, p0 \in Byte, program \in StackPrograms :
          /\ reg = [RegAtOrigin EXCEPT !.sp = sp0, !.x = x0, !.p = p0, !.a = 17, !.y = 51]
          /\ mem = MemWith(program)

NextStackOps == RunCallback \/ FetchStep

SpecStackOps == InitStackOps /\ [][NextStackOps]_vars

\* C18: PHP writes (P OR $30) to the stack and leaves P unchanged; PLP sets P
\* to (pulled byte AND $CF); PHP followed by PLP leaves bits 0-3, 6, 7 of P
\* unchanged, bits 4 and 5 clear and SP restored; TXS and TSX copy between X
\* and SP and change no flag.
StackOpsKeepStatusBits ==
    [][/\ (AtOpcode /\ OpcodeAtPC.mnemonic \in {"PHP", "PLP", "TXS", "TSX"}
                    /\ steps' = steps + 1) => fault' = "none"
       /\ Executes({"PHP"}) =>
            /\ mem' = Poke(mem, STACK_ADDR_MIN + reg.sp, BitOr(reg.p, 48))
            /\ reg'.sp = (reg.sp + 255) % 256
            /\ reg'.p = reg.p
       /\ Executes({"PLP"}) =>
            LET pulled == Peek(mem, STACK_ADDR_MIN + ((reg.sp + 1) % 256))
            IN  /\ reg'.p = BitAnd(pulled, 207)
                /\ reg'.sp = (reg.sp + 1) % 256
                /\ mem' = mem
                \* right after PHP; X holds the SP that TSX saw before the PHP
                /\ call = [op |-> "step", arg |-> 8] =>
                       /\ reg'.p % 16 = reg.p % 16
                       /\ reg'.p \div 64 = reg.p \div 64
                       /\ (reg'.p \div 16) % 4 = 0
                       /\ reg'.sp = reg.x
       /\ Executes({"TXS"}) =>
            /\ reg'.sp = reg.x
            /\ reg'.x = reg.x
            /\ reg'.p = reg.p
            /\ mem' = mem
       /\ Executes({"TSX"}) =>
            /\ reg'.x = reg.sp
            /\ reg'.sp = reg.sp
            /\ reg'.p = reg.p
            /\ mem' = mem]_vars

\* TSX, PHP, PLP ran from P = $FF and SP = $00: $FF was pushed at $0100, and
\* the run ended with P = $CF and SP = $00
WitPhpPlpRoundTrip ==
    /\ at = "returned"
    /\ steps = 3
    /\ call = [op |-> "step", arg |-> 40]
    /\ Peek(mem, 256) = 255
    /\ reg.p = 207
    /\ reg.sp = 0
    /\ reg.x = 0

----------------------------------------------------------------------------
(* Programs of stack and status instructions run from the reset state      *)

\* longest program, in instructions
MaxInstrs == 3

\* PHP, PLP, PHA (each with the byte its table length skips), RTI, SEC and
\* LDA #$30
StatusInstrs == {<<8, 234>>, <<40, 234>>, <<72, 234>>, <<64>>, <<56>>, <<169, 48>>}

RECURSIVE Flatten(_)
Flatten(instrs) ==
    IF instrs = <<>> THEN <<>> ELSE Head(instrs) \o Flatten(Tail(instrs))

StatusPrograms == {Flatten(instrs) : instrs \in SeqsUpTo(StatusInstrs, MaxInstrs) \ {<<>>}}

NextStatus ==
    \/ at = "new" /\ \E program \in StatusPrograms : LoadProgram(program)
    \/ InterruptReset
    \/ Run
    \/ RunCallback
    \/ FetchStep

SpecStatus == Init /\ [][NextStatus]_vars

\* C19: in every state reachable from the reset state by executing legal
\* instructions, bits 4 and 5 of the P register are 0, whatever byte a PLP or
\* RTI pulls from the stack.
StatusBits45Clear == (reg.p \div 16) % 4 = 0

----------------------------------------------------------------------------
(* CLC, SEC, CLI, SEI, CLV, CLD, SED over every value of P                 *)

FlagCodes == {code \in DOMAIN CPU_OPCODES_MAP :
                CPU_OPCODES_MAP[code].mnemonic \in FlagMnemonics}

InitFlag ==
    /\ InLoop
    /\ \E p0 \in Byte, sp0 \in {255, 0}, pc0 \in {PRG_ROM_ADDR_MIN, 1536}, code \in FlagCodes :
          /\ reg = [pc |-> pc0, sp |-> sp0, a |-> 17, x |-> 34, y |-> 51, p |-> p0]
          /\ mem = Poke(StackJunk, pc0, code)

NextFlag == FetchStep

SpecFlag == InitFlag /\ [][NextFlag]_vars

\* C20: each of CLC, SEC, CLI, SEI, CLV, CLD, SED sets or clears exactly its
\* one named bit of P (C = bit 0, I = bit 2, D = bit 3, V = bit 6) and leaves
\* every other bit of P, A, X, Y, SP and all of memory unchanged; PC
\* advances by 1.
FlagOpsChangeOneBit ==
    [][(AtOpcode /\ OpcodeAtPC.mnemonic \in FlagMnemonics
                 /\ steps' = steps + 1) =>
         LET m    == OpcodeAtPC.mnemonic
             mask == CASE m \in {"CLC", "SEC"} -> 1
                       [] m \in {"CLI", "SEI"} -> 4
                       [] m \in {"CLD", "SED"} -> 8
                       [] m = "CLV"            -> 64
             want == IF m \in {"SEC", "SEI", "SED"} THEN 1 ELSE 0
             had  == (reg.p \div mask) % 2
         IN  /\ fault' = "none"
             /\ reg'.p = (reg.p - (had * mask)) + (want * mask)
             /\ reg'.a = reg.a
             /\ reg'.x = reg.x
             /\ reg'.y = reg.y
             /\ reg'.sp = reg.sp
             /\ mem' = mem
             /\ reg'.pc = reg.pc + 1]_vars

\* CLV executed with every bit of P set: only V was cleared
WitClvClearsOnlyV ==
    /\ call = [op |-> "step", arg |-> 184]
    /\ fault = "none"
    /\ reg.p = 191
    /\ reg.pc = PRG_ROM_ADDR_MIN + 1
    /\ reg.a = 17 /\ reg.x = 34 /\ reg.y = 51

----------------------------------------------------------------------------
(* TAX, TXA, TAY, TYA, INX, INY, DEX, DEY: each run twice, then BRK        *)

RegisterCodes == {code \in DOMAIN CPU_OPCODES_MAP :
                    CPU_OPCODES_MAP[code].mnemonic \in RegisterMnemonics}

\* X is preset to A + 100 and Y to A + 200 (mod 256), so that every register
\* takes every value and no two registers are equal
InitRegister ==
    /\ InLoop
    /\ \E v \in Byte, p0 \in {0, 255}, code \in RegisterCodes :
          /\ reg = [RegAtOrigin EXCEPT !.a = v, !.x = (v + 100) % 256,
                                       !.y = (v + 200) % 256, !.p = p0]
          /\ mem = CopyFromSlice(StackJunk, PRG_ROM_ADDR_MIN, <<code, code, 0>>)

NextRegister == RunCallback \/ FetchStep

SpecRegister == InitRegister /\ [][NextRegister]_vars

\* C21: TAX, TXA, TAY, TYA copy the source register to the destination; INX,
\* INY add 1 and DEX, DEY subtract 1 modulo 256; each sets N, Z from the
\* destination's new value and changes no other register and no memory; two
\* INX from X = $FF give X = $01.
RegisterUpdateWraps ==
    [][/\ (AtOpcode /\ OpcodeAtPC.mnemonic \in RegisterMnemonics
                    /\ steps' = steps + 1) =>
            LET m     == OpcodeAtPC.mnemonic
                value == CASE m \in {"TAX", "TAY"} -> reg.a
                           [] m = "TXA" -> reg.x
                           [] m = "TYA" -> reg.y
                           [] m = "INX" -> IF reg.x = 255 THEN 0 ELSE reg.x + 1
                           [] m = "INY" -> IF reg.y = 255 THEN 0 ELSE reg.y + 1
                           [] m = "DEX" -> IF reg.x = 0 THEN 255 ELSE reg.x - 1
                           [] m = "DEY" -> IF reg.y = 0 THEN 255 ELSE reg.y - 1
            IN  /\ fault' = "none"
                /\ reg'.a = IF m \in {"TXA", "TYA"} THEN value ELSE reg.a
                /\ reg'.x = IF m \in {"TAX", "INX", "DEX"} THEN value ELSE reg.x
                /\ reg'.y = IF m \in {"TAY", "INY", "DEY"} THEN value ELSE reg.y
                /\ reg'.sp = reg.sp
                /\ mem' = mem
                /\ ((reg'.p \div 2) % 2 = 1) <=> (value = 0)
                /\ ((reg'.p \div 128) % 2 = 1) <=> (value >= 128)
                /\ reg'.p % 2 = reg.p % 2
                /\ (reg'.p \div 4) % 32 = (reg.p \div 4) % 32
       \* the second INX of the run whose X was preset to $FF (A = $9B)
       /\ (Executes({"INX"}) /\ steps = 1 /\ reg.a = 155) => reg'.x = 1]_vars

\* the run of [INX, INX, BRK] from X = $FF has returned with X = $01
WitInxTwiceFromFF ==
    /\ at = "returned"
    /\ steps = 2
    /\ call = [op |-> "step", arg |-> 232]
    /\ reg.a = 155
    /\ reg.x = 1
    /\ reg.pc = PRG_ROM_ADDR_MIN + 2

----------------------------------------------------------------------------
(* get_operand_address called on its own: the indirect modes               *)

\* addr.rs : the variants of AddressMode, in declaration order
AddressMode ==
    << "Implicit", "Accumulator", "Immediate", "ZeroPage", "ZeroPageX",
       "ZeroPageY", "Relative", "Absolute", "AbsoluteX", "AbsoluteY",
       "Indirect", "IndirectX", "IndirectY" >>

ModeIndex(mode) == CHOOSE i \in DOMAIN AddressMode : AddressMode[i] = mode

\* self.get_operand_address(&AddressMode[i]); the address comes back in ret
GetOperandAddress(i) ==
    /\ at = "idle"
    /\ LET r == get_operand_address(cpu, AddressMode[i])
       IN  /\ ret' = r.v
           /\ fault' = r.fault
           /\ at' = IF r.fault # "none" THEN "panicked" ELSE "resolved"
    /\ call' = [op |-> "get_operand_address", arg |-> i]
    /\ UNCHANGED <<reg, mem, build, hooks, steps>>

\* index register values at and around the wrap
IndexSamples == {0, 1, 2, 255}

\* a byte for each address of page zero, all different, and another at 0x0100
PageByte(i) == IF i = 256 THEN 99 ELSE ((7 * i) + 3) % 256

ZeroPageImage == [k \in {i \in 0 .. 256 : PageByte(i) # 0} |-> PageByte(k)]

InitIndirect ==
    /\ Idle
    /\ \E z \in Byte, x0 \in IndexSamples, y0 \in IndexSamples :
          /\ reg = [RegAtOrigin EXCEPT !.pc = PRG_ROM_ADDR_MIN + 1,
                                       !.x = x0, !.y = y0]
          /\ mem = Poke(ZeroPageImage, PRG_ROM_ADDR_MIN + 1, z)

NextIndirect ==
    \E i \in {ModeIndex("IndirectX"), ModeIndex("IndirectY")} :
        GetOperandAddress(i)

SpecIndirect == InitIndirect /\ [][NextIndirect]_vars

\* C22: for IndirectX the pointer is (operand byte + X) mod 256 and the
\* address is the word whose low byte is at the pointer and whose high byte
\* is at (pointer + 1) mod 256; for IndirectY the word's bytes are at the
\* operand byte z and at (z + 1) mod 256 and Y is added modulo 65536; the
\* byte at 0x0100 never takes part, whatever it holds.
IndirectPointerStaysInPageZero ==
    [][call'.op = "get_operand_address" =>
          LET z    == Peek(mem, reg.pc)
              ptr  == (z + reg.x) % 256
              mode == AddressMode[call'.arg]
          IN  /\ fault' = "none"
              /\ mode = "IndirectX" =>
                    ret' = Peek(mem, ptr) + (256 * Peek(mem, (ptr + 1) % 256))
              /\ mode = "IndirectY" =>
                    ret' = (Peek(mem, z) + (256 * Peek(mem, (z + 1) % 256))
                            + reg.y) % 65536
              /\ \A other \in {0, 1, 255} :
                    get_operand_address(
                        [cpu EXCEPT !.mem = Poke(mem, 256, other)], mode).v
                    = ret']_vars

\* IndirectX with operand byte 0xFE and X = 1: the low byte comes from 0x00FF
\* and the high byte from 0x0000, which differs from the byte at 0x0100
WitPointerWrapsAtFF ==
    /\ at = "resolved"
    /\ call = [op |-> "get_operand_address", arg |-> ModeIndex("IndirectX")]
    /\ Peek(mem, reg.pc) = 254
    /\ reg.x = 1
    /\ Peek(mem, 0) # Peek(mem, 256)
    /\ ret = Peek(mem, 255) + (256 * Peek(mem, 0))

----------------------------------------------------------------------------
(* get_operand_address called on its own: every mode                       *)

\* m with val at addr when the array has that index
Put(m, addr, val) == IF addr < MEM_SIZE THEN Poke(m, addr, val) ELSE m

\* program counters in the program, at a page end and at the end of memory
PcSamples == {PRG_ROM_ADDR_MIN + 1, 255, 65533, 65534, 65535}

\* low and high operand bytes
OperandLows == {0, 128, 254, 255}

OperandHighs == {0, 1, 255}

\* the operand bytes lo, hi at pc and the word 0x1234 where they point
MemResolve(pc, lo, hi) ==
    LET target == lo + (256 * hi)
        data   == Put(Put(SimpleMap_default, target, 52),
                      (target + 1) % U16, 18)
    IN  Put(Put(data, (pc + 1) % U16, hi), pc, lo)

InitResolve ==
    /\ Idle
    /\ \E pc0 \in PcSamples, lo \in OperandLows, hi \in OperandHighs,
          x0 \in IndexSamples, y0 \in IndexSamples :
          /\ reg = [RegAtOrigin EXCEPT !.pc = pc0, !.x = x0, !.y = y0]
          /\ mem = MemResolve(pc0, lo, hi)

NextResolve == \E i \in DOMAIN AddressMode : GetOperandAddress(i)

SpecResolve == InitResolve /\ [][NextResolve]_vars

\* the little-endian word at addr of a memory of 65536 locations
WordAt(m, addr) == Peek(m, addr) + (256 * Peek(m, (addr + 1) % 65536))

\* C23: in every register and memory state the resolver returns PC for
\* Immediate, the operand byte for ZeroPage, (operand byte + X or Y) mod 256
\* for ZeroPageX/ZeroPageY, the word at PC for Absolute, (that word + X or Y)
\* mod 65536 for AbsoluteX/AbsoluteY, and the word stored at the address
\* given by the word at PC for Indirect.
ResolverReturnsModeAddress ==
    [][call'.op = "get_operand_address" =>
          LET mode == AddressMode[call'.arg]
              b    == Peek(mem, reg.pc)
              w    == WordAt(mem, reg.pc)
              Is(v) == fault' = "none" /\ ret' = v
          IN  /\ mode = "Immediate" => Is(reg.pc)
              /\ mode = "ZeroPage"  => Is(b)
              /\ mode = "ZeroPageX" =>
                    Is((b + reg.x) % 256) /\ ret' < 256
              /\ mode = "ZeroPageY" =>
                    Is((b + reg.y) % 256) /\ ret' < 256
              /\ mode = "Absolute"  => Is(w)
              /\ mode = "AbsoluteX" => Is((w + reg.x) % 65536)
              /\ mode = "AbsoluteY" => Is((w + reg.y) % 65536)
              /\ mode = "Indirect"  => Is(WordAt(mem, w))]_vars

\* the modes that have an operand address
AddressedModes ==
    { "Immediate", "ZeroPage", "ZeroPageX", "ZeroPageY", "Absolute",
      "AbsoluteX", "AbsoluteY", "Indirect", "IndirectX", "IndirectY" }

\* C24: the resolver yields an address for exactly the ten addressed modes
\* and signals NoOperandAddress for Implicit, Accumulator and Relative.
ResolverFailsForAddresslessModes ==
    [][call'.op = "get_operand_address" =>
          LET mode == AddressMode[call'.arg]
          IN  IF mode \in AddressedModes
              THEN fault' = "none"
              ELSE fault' = "NoOperandAddress"]_vars

\* C24 as the code has it: the resolver signals NoOperandAddress for Implicit
\* and Accumulator and for no other mode, and for Relative it returns PC, the
\* address of the offset byte.
ResolverFailsForImplicitAndAccumulator ==
    [][call'.op = "get_operand_address" =>
          LET mode == AddressMode[call'.arg]
          IN  /\ (fault' = "NoOperandAddress")
                    <=> (mode \in {"Implicit", "Accumulator"})
              /\ mode = "Relative" => (fault' = "none" /\ ret' = reg.pc)]_vars

\* Relative resolved at the last address of the memory
WitRelativeResolvesToPC ==
    /\ at = "resolved"
    /\ call = [op |-> "get_operand_address", arg |-> ModeIndex("Relative")]
    /\ fault = "none"
    /\ reg.pc = 65534
    /\ ret = reg.pc

----------------------------------------------------------------------------
(* step called with every byte value                                       *)

\* program counters in the program, at a page end and before the last index
StepPcSamples == {PRG_ROM_ADDR_MIN, 255, 65533}

InitLookup ==
    /\ Idle
    /\ \E pc0 \in StepPcSamples, a0 \in {0, 129}, x0 \in {1, 255},
          sp0 \in {255, 1}, p0 \in {0, 195} :
          /\ reg = [pc |-> pc0, sp |-> sp0, a |-> a0, x |-> x0,
                    y |-> (x0 + 1) % 256, p |-> p0]
          /\ mem = Put(Put(StackJunk, pc0 + 1, 16), pc0 + 2, 2)

NextLookup == steps = 0 /\ \E code \in Byte : StepCall(code)

SpecLookup == InitLookup /\ [][NextLookup]_vars

\* C25: step(code) fails with UnimplementedOpcode exactly when code has no
\* entry in the opcode table, and then PC has been advanced by 1 while A, X,
\* Y, SP, P and the memory are as before the call.
StepFailsOnUnknownCodeOnly ==
    [][call'.op = "step" =>
          /\ (fault' = "UnimplementedOpcode")
                <=> (\A i \in DOMAIN NMOS_6502_OPCODES :
                        NMOS_6502_OPCODES[i].code # call'.arg)
          /\ fault' = "UnimplementedOpcode" =>
                /\ reg' = [reg EXCEPT !.pc = reg.pc + 1]
                /\ mem' = mem]_vars

\* step(0x02) has failed from A = 0x81 at the program origin
WitUnknownCodeAdvancesPC ==
    /\ at = "panicked"
    /\ fault = "UnimplementedOpcode"
    /\ call = [op |-> "step", arg |-> 2]
    /\ reg.a = 129
    /\ reg.pc = PRG_ROM_ADDR_MIN + 1

\* C26: step of an opcode of the table reaches a handler that accepts the
\* opcode's mnemonic and addressing mode: it raises neither
\* InvalidMnemonicForHandler nor NoOperandAddress.
TableOpcodesReachTheirHandler ==
    [][(call'.op = "step"
        /\ \E i \in DOMAIN NMOS_6502_OPCODES :
              NMOS_6502_OPCODES[i].code = call'.arg)
       => fault' \notin {"InvalidMnemonicForHandler", "NoOperandAddress"}]_vars

\* step(0x0A), ASL in Accumulator mode, has completed
WitAccumulatorShiftCompletes ==
    /\ at = "stepped"
    /\ fault = "none"
    /\ call = [op |-> "step", arg |-> 10]
    /\ reg.pc = PRG_ROM_ADDR_MIN + 1

----------------------------------------------------------------------------
(* ops.rs : the opcode table looked up on its own                          *)

\* CPU_OPCODES_MAP.get(&code); ret is the place of the entry found in
\* NMOS_6502_OPCODES, or 0 for None
Lookup(code) ==
    /\ at = "idle"
    /\ ret' = IF code \in DOMAIN CPU_OPCODES_MAP
              THEN CHOOSE i \in DOMAIN NMOS_6502_OPCODES :
                       NMOS_6502_OPCODES[i] = CPU_OPCODES_MAP[code]
              ELSE 0
    /\ at' = "looked"
    /\ call' = [op |-> "lookup", arg |-> code]
    /\ UNCHANGED <<reg, mem, fault, build, hooks, steps>>

InitTable ==
    /\ Idle
    /\ reg = RegisterSet_default
    /\ mem = SimpleMap_default

NextTable == \E code \in Byte : Lookup(code)

SpecTable == InitTable /\ [][NextTable]_vars

\* C27: no two entries of the opcode table share a code byte, the lookup map
\* has as many entries as the table, and lookup(code) returns the one entry
\* whose code field is code (nothing when there is none).
TableCodesAreUnique ==
    [][call'.op = "lookup" =>
          LET idx == {i \in DOMAIN NMOS_6502_OPCODES :
                         NMOS_6502_OPCODES[i].code = call'.arg}
          IN  /\ Cardinality(idx) <= 1
              /\ Cardinality(DOMAIN CPU_OPCODES_MAP) = Len(NMOS_6502_OPCODES)
              /\ IF idx = {} THEN ret' = 0 ELSE ret' \in idx]_vars

\* lookup(0xA9) has returned the entry of LDA immediate
WitLookupFindsLda ==
    /\ at = "looked"
    /\ call = [op |-> "lookup", arg |-> 169]
    /\ ret # 0
    /\ NMOS_6502_OPCODES[ret].mnemonic = "LDA"
    /\ NMOS_6502_OPCODES[ret].mode = "Immediate"

\* C28: the entry that lookup returns is the only entry of the table with
\* its mnemonic and addressing mode, and the table has 151 entries.
TableHasOneEntryPerMnemonicAndMode ==
    [][(call'.op = "lookup" /\ ret' # 0) =>
          /\ \A j \in DOMAIN NMOS_6502_OPCODES :
                (/\ NMOS_6502_OPCODES[j].mnemonic = NMOS_6502_OPCODES[ret'].mnemonic
                 /\ NMOS_6502_OPCODES[j].mode = NMOS_6502_OPCODES[ret'].mode)
                => j = ret'
          /\ Len(NMOS_6502_OPCODES) = 151]_vars

----------------------------------------------------------------------------
(* load_program and interrupt_reset on a CPU that has been used before     *)

MaxReload == 2

\* the number of bytes between the program origin and the reset vector
VectorOffset == PRG_START_ADDR - PRG_ROM_ADDR_MIN

\* programs that end right before the reset vector and on its first byte
LongPrograms == {[i \in 1 .. n |-> 234] : n \in {VectorOffset, VectorOffset + 1}}

ShortPrograms == SeqsUpTo({0, 169, 255}, MaxReload) \ {<<>>}

\* what an earlier program and its run left in the memory
PriorMemory ==
    StackJunk @@ (32768 :> 7) @@ (32769 :> 8) @@ (32771 :> 9)
              @@ (65532 :> 52) @@ (65533 :> 18) @@ (65534 :> 5)

PriorRegisters ==
    { RegisterSet_default,
      [pc |-> 4660, sp |-> 3, a |-> 1, x |-> 2, y |-> 3, p |-> 195] }

InitReload ==
    /\ reg \in PriorRegisters
    /\ mem \in {SimpleMap_default, PriorMemory}
    /\ fault = "none"
    /\ build \in {"debug", "release"}
    /\ at = "new"
    /\ call = NoCall
    /\ ret = 0
    /\ hooks = 0
    /\ steps = 0

\* the long programs are loaded over the used memory and registers only
ReloadPrograms ==
    IF mem = PriorMemory /\ reg # RegisterSet_default
    THEN ShortPrograms \cup LongPrograms
    ELSE ShortPrograms

NextReload ==
    \/ at = "new" /\ \E program \in ReloadPrograms : LoadProgram(program)
    \/ InterruptReset

SpecReload == InitReload /\ [][NextReload]_vars

\* the state that load_program(bytes) and interrupt_reset() are to leave
ResetLeaves(bytes) ==
    /\ fault' = "none"
    /\ \A i \in 1 .. Len(bytes) :
          Peek(mem', PRG_ROM_ADDR_MIN + i - 1) = bytes[i]
    /\ Peek(mem', 65532) = 0
    /\ Peek(mem', 65533) = 128
    /\ reg' = [pc |-> 32768, sp |-> 255, a |-> 0, x |-> 0, y |-> 0, p |-> 0]
    /\ mem' = mem

----------------------------------------------------------------------------
(* memory.rs : the memory accessed at and around its last address          *)

\* addresses at the page ends, at the program origin and at the end
AddrSamples == {0, 255, 256, PRG_ROM_ADDR_MIN, 65533, 65534, 65535}

\* self.mem.read_u8(addr)
ReadU8(addr) ==
    /\ at = "idle"
    /\ LET r == read_u8(mem, addr)
       IN  /\ ret' = r.v
           /\ fault' = r.fault
           /\ at' = IF r.fault # "none" THEN "panicked" ELSE "accessed"
    /\ call' = [op |-> "read_u8", arg |-> addr]
    /\ UNCHANGED <<reg, mem, build, hooks, steps>>

\* self.mem.read_u16(addr)
ReadU16(addr) ==
    /\ at = "idle"
    /\ LET r == read_u16(mem, addr)
       IN  /\ ret' = r.v
           /\ fault' = r.fault
           /\ at' = IF r.fault # "none" THEN "panicked" ELSE "accessed"
    /\ call' = [op |-> "read_u16", arg |-> addr]
    /\ UNCHANGED <<reg, mem, build, hooks, steps>>

\* self.mem.write_u8(addr, val); ret keeps the value written
WriteU8(addr, val) ==
    /\ at = "idle"
    /\ LET w == write_u8(mem, addr, val)
       IN  /\ mem' = w.mem
           /\ fault' = w.fault
           /\ at' = IF w.fault # "none" THEN "panicked" ELSE "accessed"
    /\ ret' = val
    /\ call' = [op |-> "write_u8", arg |-> addr]
    /\ UNCHANGED <<reg, build, hooks, steps>>

\* self.mem.write_u16(addr, val); ret keeps the value written
WriteU16(addr, val) ==
    /\ at = "idle"
    /\ LET w == write_u16(mem, addr, val)
       IN  /\ mem' = w.mem
           /\ fault' = w.fault
           /\ at' = IF w.fault # "none" THEN "panicked" ELSE "accessed"
    /\ ret' = val
    /\ call' = [op |-> "write_u16", arg |-> addr]
    /\ UNCHANGED <<reg, build, hooks, steps>>

\* NOP, LDA immediate and LDA absolute
FetchingCodes == {234, 169, 173}

InitMemory ==
    /\ Idle
    /\ \E pc0 \in {PRG_ROM_ADDR_MIN, 65533, 65534, 65535} :
          reg = [RegisterSet_default EXCEPT !.pc = pc0]
    /\ mem \in {SimpleMap_default, PriorMemory}

NextMemory ==
    \/ \E addr \in AddrSamples : ReadU8(addr)
    \/ \E addr \in AddrSamples : ReadU16(addr)
    \/ \E addr \in AddrSamples, val \in {0, 171} : WriteU8(addr, val)
    \/ \E addr \in AddrSamples, val \in {0, 43981} : WriteU16(addr, val)
    \/ steps = 0 /\ at = "idle" /\ \E code \in FetchingCodes : StepCall(code)

SpecMemory == InitMemory /\ [][NextMemory]_vars

\* C30: the memory has 65536 locations: every 8-bit read and write at an
\* address in 0x0000..0xFFFF succeeds, a 16-bit read or write at 0xFFFF
\* wraps to 0x0000 for its high byte, and a step whose PC increment or
\* operand fetch reaches 0xFFFF does not fail.
MemoryAccessNeverFails ==
    [][/\ call'.op \in {"read_u8", "read_u16", "write_u8", "write_u16", "step"}
          => fault' = "none"
       /\ call'.op = "read_u8" => ret' = Peek(mem, call'.arg)
       /\ call'.op = "read_u16" => ret' = WordAt(mem, call'.arg)
       /\ call'.op = "write_u8" => Peek(mem', call'.arg) = ret'
       /\ call'.op = "write_u16" => WordAt(mem', call'.arg) = ret']_vars

----------------------------------------------------------------------------
(* run_with_callback with a hook that writes the program and resets        *)

\* callback(self) calls self.interrupt_reset() and returns Ok(())
CallbackResets ==
    /\ at = "callback"
    /\ hooks < MaxHooks
    /\ hooks' = hooks + 1
    /\ Becomes(interrupt_reset(cpu), "fetch")
    /\ UNCHANGED <<build, call, ret, steps>>

\* INX, BRK; LDA #5, BRK; NOP, NOP, BRK
HookPrograms == {<<232, 0>>, <<169, 5, 0>>, <<234, 234, 0>>}

\* what the hook loads: nothing, the input byte of main.rs, or INY (a byte of
\* no program) or BRK over the second byte of the program
HookWrites ==
    { <<0, <<>> >>, <<254, <<1>> >>,
      <<PRG_ROM_ADDR_MIN + 1, <<200>> >>, <<PRG_ROM_ADDR_MIN + 1, <<0>> >> }

NextHook ==
    \/ at = "new" /\ \E program \in HookPrograms : LoadProgram(program)
    \/ InterruptReset
    \/ Run
    \/ \E loads \in HookWrites : CallbackOk(loads)
    \/ CallbackResets
    \/ CallbackErr
    \/ FetchStep

SpecHook == Init /\ [][NextHook]_vars

\* C31: the hook has run exactly once more than instructions were executed
\* whenever a fetch is due or the loop has returned, and exactly as often
\* when the hook is due; a step happens only at a fetch, without the hook in
\* between, and executes the byte that the memory holds at PC as the hook
\* left registers and memory; a BRK the hook left at PC ends the run.
HookRunsBeforeEveryFetch ==
    [][/\ at' \in {"fetch", "returned"} => hooks' = steps' + 1
       /\ at' = "callback" => hooks' = steps'
       /\ steps' = steps + 1 =>
             /\ at = "fetch"
             /\ hooks' = hooks
             /\ call' = [op |-> "step", arg |-> Peek(mem, reg.pc)]
             /\ reg' = step(cpu, Peek(mem, reg.pc)).reg
             /\ mem' = step(cpu, Peek(mem, reg.pc)).mem
       /\ (at = "fetch" /\ fault = "none" /\ Peek(mem, reg.pc) = 0) =>
             (at' = "returned" /\ reg' = reg /\ mem' = mem /\ steps' = steps)
       /\ (at = "fetch" /\ fault = "none" /\ Peek(mem, reg.pc) # 0) =>
             steps' = steps + 1]_vars

\* the hook wrote INY over the BRK of [INX, BRK]: the loop executed INX and
\* INY after two hook calls and returned after the third
WitHookInjectsIny ==
    /\ at = "returned"
    /\ call = [op |-> "step", arg |-> 200]
    /\ reg.x = 1
    /\ reg.y = 1
    /\ steps = 2
    /\ hooks = 3

\* C32: when the hook fails on its k-th invocation the run ends in a panic
\* at once: k - 1 instructions have been executed, registers and memory are
\* as the last of them left them, and nothing happens afterwards: no fetch,
\* no step, no hook call and no return.
HookFailureEndsRun ==
    [][/\ fault # "CallbackError"
       /\ fault' = "CallbackError" =>
             /\ at = "callback"
             /\ at' = "panicked"
             /\ hooks' = hooks + 1
             /\ steps' = steps
             /\ steps' = hooks' - 1
             /\ reg' = reg
             /\ mem' = mem]_vars

\* the hook has failed on its third invocation, after two instructions
WitHookFailsOnThirdCall ==
    /\ at = "panicked"
    /\ fault = "CallbackError"
    /\ hooks = 3
    /\ steps = 2
    /\ call.op = "step"

----------------------------------------------------------------------------
(* STA, STX and STY in every addressing mode of the table                  *)

StoreCodes == {code \in DOMAIN CPU_OPCODES_MAP :
                 CPU_OPCODES_MAP[code].mnemonic \in {"STA", "STX", "STY"}}

InitStore ==
    /\ InLoop
    /\ \E a0 \in {0, 90, 255}, x0 \in {0, 3, 255}, y0 \in {0, 5, 129},
          p0 \in {0, 255}, b \in {0, 238}, code \in StoreCodes :
          LET r == [RegAtOrigin EXCEPT !.a = a0, !.x = x0, !.y = y0, !.p = p0]
          IN  /\ reg = r
              /\ mem = MemWithOperand(code, r, b)

NextStore == FetchStep

SpecStore == InitStore /\ [][NextStore]_vars

\* C33: STA, STX and STY write A, X, Y to the resolved address and change
\* no other memory byte, no flag and no register other than PC.
StoreWritesOnlyTheTarget ==
    [][(/\ AtOpcode
        /\ OpcodeAtPC.mnemonic \in {"STA", "STX", "STY"}
        /\ steps' = steps + 1)
       => LET m   == OpcodeAtPC.mnemonic
              val == CASE m = "STA" -> reg.a
                       [] m = "STX" -> reg.x
                       [] m = "STY" -> reg.y
          IN  /\ fault' = "none"
              /\ mem' = Poke(mem, AddressAtPC, val)
              /\ reg'.pc # reg.pc
              /\ [reg' EXCEPT !.pc = reg.pc] = reg]_vars

\* STX $10,Y (0x96) has stored X = 0xFF at 0x0015 with every flag set
WitStxStoresOverOldByte ==
    /\ at = "callback"
    /\ call = [op |-> "step", arg |-> 150]
    /\ reg.x = 255
    /\ reg.y = 5
    /\ reg.p = 255
    /\ Peek(mem, 21) = 255

----------------------------------------------------------------------------
(* cpu/decomp.rs : the disassembler.  A text is the sequence of its        *)
(* pieces: a mnemonic, a digit, a punctuation mark or the newline.         *)

HexDigits ==
    << "0", "1", "2", "3", "4", "5", "6", "7",
       "8", "9", "a", "b", "c", "d", "e", "f" >>

\* format!("{:02x}", op) and format!("{:04x}", op)
Hex02(op) == << HexDigits[(op \div 16) + 1], HexDigits[(op % 16) + 1] >>

Hex04(op) == Hex02(op \div 256) \o Hex02(op % 256)

\* format!("{:+}", op) of an unsigned byte
RECURSIVE Decimal(_)
Decimal(n) ==
    IF n < 10 THEN << HexDigits[n + 1] >>
    ELSE Decimal(n \div 10) \o << HexDigits[(n % 10) + 1] >>

PlusDecimal(op) == << "+" >> \o Decimal(op)

\* self.opcode.mnemonic.as_string() : the name of the variant
as_string(mnemonic) == << mnemonic >>

\* Instruction::from_iter on the bytes of program from place pos on; next is
\* the place after the instruction, and unwrap on an exhausted iterator or
\* expect on an unknown byte panics
from_iter(program, pos) ==
    LET byte   == program[pos]
        opcode == CPU_OPCODES_MAP[byte]
        has(n) == pos + n <= Len(program)
    IN  IF byte \notin DOMAIN CPU_OPCODES_MAP
        THEN [fault |-> "UnimplementedOpcode", next |-> pos]
        ELSE IF opcode.mode \in {"Implicit", "Accumulator"}
        THEN [fault |-> "none", next |-> pos + 1, opcode |-> opcode,
              operand |-> [kind |-> "None", v |-> 0]]
        ELSE IF opcode.mode \in {"Immediate", "ZeroPage", "ZeroPageX",
                                 "ZeroPageY", "Relative", "IndirectX",
                                 "IndirectY"}
        THEN IF ~has(1) THEN [fault |-> "UnwrapNone", next |-> pos]
             ELSE [fault |-> "none", next |-> pos + 2, opcode |-> opcode,
                   operand |-> [kind |-> "Word", v |-> program[pos + 1]]]
        ELSE IF ~has(2) THEN [fault |-> "UnwrapNone", next |-> pos]
             ELSE [fault |-> "none", next |-> pos + 3, opcode |-> opcode,
                   operand |-> [kind |-> "DoubleWord",
                                v |-> program[pos + 1]
                                      + (256 * program[pos + 2])]]

\* impl Display for Instruction
fmt(inst) ==
    LET mnem == as_string(inst.opcode.mnemonic)
        mode == inst.opcode.mode
        op   == inst.operand.v
        oper ==
          CASE mode = "Implicit"    -> << >>
            [] mode = "Accumulator" -> << "A" >>
            [] mode = "Immediate"   -> << "#" >> \o Hex02(op)
            [] mode = "ZeroPage"    -> << "$" >> \o Hex02(op)
            [] mode = "ZeroPageX"   -> << "$" >> \o Hex02(op) \o << ",", "X" >>
            [] mode = "ZeroPageY"   -> << "$" >> \o Hex02(op) \o << ",", "Y" >>
            [] mode = "Relative"    -> << "*" >> \o PlusDecimal(op)
            [] mode = "Absolute"    -> << "$" >> \o Hex04(op)
            [] mode = "AbsoluteX"   -> << "$" >> \o Hex04(op) \o << ",", "X" >>
            [] mode = "AbsoluteY"   -> << "$" >> \o Hex04(op) \o << ",", "Y" >>
            [] mode = "Indirect"    -> << "(", "$" >> \o Hex04(op) \o << ")" >>
            [] mode = "IndirectX"   ->
                  << "(", "$" >> \o Hex02(op) \o << ",", "X", ")" >>
            [] mode = "IndirectY"   ->
                  << "(", "$" >> \o Hex02(op) \o << ")", ",", "Y" >>
    IN  IF oper = << >> THEN mnem ELSE mnem \o << " " >> \o oper

\* while let Some(instruction) = Instruction::from_iter(&mut cursor); the
\* instruction read at pos is bound once, as i
RECURSIVE decompile_from(_, _, _)
decompile_from(program, pos, instructions) ==
    IF pos > Len(program)
    THEN [fault |-> "none", instructions |-> instructions]
    ELSE CHOOSE d \in
           { IF i.fault # "none"
             THEN [fault |-> i.fault, instructions |-> instructions]
             ELSE decompile_from(program, i.next,
                      Append(instructions,
                             [opcode |-> i.opcode, operand |-> i.operand]))
             : i \in { from_iter(program, pos) } } : TRUE

decompile_to_instructions(program) == decompile_from(program, 1, << >>)

\* strings.join("\n")
RECURSIVE join(_)
join(strings) ==
    IF strings = << >> THEN << >>
    ELSE IF Len(strings) = 1 THEN strings[1]
    ELSE strings[1] \o << "\n" >> \o join(Tail(strings))

\* a variant that ends every line, the last one too, with a newline
decompile_to_string_newline_after_each(program) ==
    CHOOSE r \in
      { [fault |-> d.fault,
         v |-> IF d.fault # "none" \/ d.instructions = << >> THEN << >>
               ELSE join([i \in DOMAIN d.instructions |->
                             fmt(d.instructions[i])]) \o << "\n" >>]
        : d \in { decompile_to_instructions(program) } } : TRUE

\* the instructions are decompiled once, as d
decompile_to_string(program) ==
    CHOOSE r \in
      { [fault |-> d.fault,
         v |-> IF d.fault # "none" THEN << >>
               ELSE join([i \in DOMAIN d.instructions |->
                             fmt(d.instructions[i])])]
        : d \in { decompile_to_instructions(program) } } : TRUE

\* a call of decompile_to_string on the bytes of the pieces in chunks
DecompileToString(chunks) ==
    /\ at = "idle"
    /\ call' = [op |-> "decompile_to_string", arg |-> chunks]
    /\ \E d \in { decompile_to_string(Flatten(chunks)) } :
          /\ ret' = d.v
          /\ fault' = d.fault
          /\ at' = IF d.fault # "none" THEN "panicked" ELSE "decompiled"
    /\ UNCHANGED <<reg, mem, build, hooks, steps>>

MaxLines == 2

\* one opcode of every addressing mode, and a stack instruction
DecompCodes == {0, 10, 72, 169, 165, 181, 182, 208, 173, 189, 185, 108,
                161, 177}

OperandBytes == {35, 255}

\* the operand bytes an instruction of the mode carries
OperandLen(mode) ==
    CASE mode \in {"Implicit", "Accumulator"} -> 0
      [] mode \in {"Absolute", "AbsoluteX", "AbsoluteY", "Indirect"} -> 2
      [] OTHER -> 1

\* whole instructions with the operand $23 (LDA # also with $FF), an
\* instruction cut short and a byte that is no opcode
DecompChunks ==
    UNION { LET n == OperandLen(CPU_OPCODES_MAP[code].mode)
            IN  IF n = 0 THEN { << code >> }
                ELSE IF n = 1 THEN { << code, 35 >> }
                ELSE { << code, 35, 1 >> }
          : code \in DecompCodes }
    \cup { << 169, b >> : b \in OperandBytes }
    \cup { << 169 >>, << 2 >> }

DecompInputs ==
    UNION { [1 .. n -> DecompChunks] : n \in 0 .. MaxLines }

InitDecomp ==
    /\ Idle
    /\ reg = RegisterSet_default
    /\ mem = SimpleMap_default

NextDecomp == \E chunks \in DecompInputs : DecompileToString(chunks)

SpecDecomp == InitDecomp /\ [][NextDecomp]_vars

\* the lines of a text: the runs of pieces between newlines
RECURSIVE LinesOf(_)
LinesOf(text) ==
    IF text = << >> THEN << >>
    ELSE IF \A k \in DOMAIN text : text[k] # "\n" THEN << text >>
    ELSE LET k == CHOOSE j \in DOMAIN text :
                    /\ text[j] = "\n"
                    /\ \A i \in 1 .. (j - 1) : text[i] # "\n"
             rest == SubSeq(text, k + 1, Len(text))
         IN  << SubSeq(text, 1, k - 1) >>
             \o (IF rest = << >> THEN << << >> >> ELSE LinesOf(rest))

WholeInstruction(chunk) ==
    /\ chunk[1] \in DOMAIN CPU_OPCODES_MAP
    /\ Len(chunk) = 1 + OperandLen(CPU_OPCODES_MAP[chunk[1]].mode)

----------------------------------------------------------------------------
(* One step of every opcode of the table, from the program origin.         *)

InitAdvance ==
    /\ InLoop
    /\ \E i \in DOMAIN NMOS_6502_OPCODES, a0 \in {0, 200}, x0 \in {0, 3},
          p0 \in {0, 255}, b \in {0, 238} :
          LET code == NMOS_6502_OPCODES[i].code
              r    == [RegAtOrigin EXCEPT !.a = a0, !.x = x0, !.y = 5,
                                          !.p = p0]
          IN  /\ reg = r
              /\ mem = MemWithOperand(code, r, b)

NextAdvance == FetchStep

SpecAdvance == InitAdvance /\ [][NextAdvance]_vars

ControlTransfers == {"JMP", "JSR", "RTS", "RTI", "BRK"}

\* the instruction about to be fetched hands control to the next one in line
FallsThrough ==
    /\ AtOpcode
    /\ OpcodeAtPC.mnemonic \notin ControlTransfers
    /\ (OpcodeAtPC.mnemonic \in BranchMnemonics
          => ~BranchTaken(OpcodeAtPC.mnemonic, reg.p))

\* C35: a step of an opcode that is no control transfer advances PC by one
\* plus the operand size of the opcode's addressing mode, the stack
\* instructions TXS, TSX, PHA, PLA, PHP and PLP included.
StepAdvancesPastInstruction ==
    [][ (FallsThrough /\ steps' = steps + 1 /\ fault' = "none")
        => reg'.pc = reg.pc + 1 + OperandLen(OpcodeAtPC.mode) ]_vars

\* the same for every opcode but the six stack instructions
StepAdvancesPastNonStackInstruction ==
    [][ (FallsThrough /\ steps' = steps + 1 /\ fault' = "none"
         /\ OpcodeAtPC.mnemonic \notin StackMnemonics)
        => reg'.pc = reg.pc + 1 + OperandLen(OpcodeAtPC.mode) ]_vars

\* a stack instruction leaves PC two bytes on
StackInstructionSkipsAByte ==
    [][ (FallsThrough /\ steps' = steps + 1 /\ fault' = "none"
         /\ OpcodeAtPC.mnemonic \in StackMnemonics)
        => reg'.pc = reg.pc + 2 ]_vars

----------------------------------------------------------------------------
(* Runs that use the stack and then reach a 0x00 byte.                     *)

\* BRK alone; LDA #5, PHA; PHP; LDX #$80, TXS, PHA
HaltPrograms ==
    { << 0 >>, << 169, 5, 72, 234, 0 >>, << 8, 234, 0 >>,
      << 162, 128, 154, 234, 72, 234, 0 >> }

\* hooks that leave memory alone, write into the stack page or clear the
\* byte at the origin
HaltWrites ==
    { << 0, << >> >>, << STACK_ADDR_MIN + 255, << 7 >> >>,
      << STACK_ADDR_MIN + 253, << 9, 9 >> >>, << PRG_ROM_ADDR_MIN, << 0 >> >> }

NextHalt ==
    \/ at = "new" /\ \E program \in HaltPrograms : LoadProgram(program)
    \/ InterruptReset
    \/ Run
    \/ \E loads \in HaltWrites : CallbackOk(loads)
    \/ CallbackResets
    \/ CallbackErr
    \/ FetchStep

SpecHalt == Init /\ [][NextHalt]_vars

StackPage == STACK_ADDR_MIN .. (STACK_ADDR_MIN + 255)

----------------------------------------------------------------------------
(* push_u8, pull_u8, push_u16 and pull_u16 from every stack pointer        *)

PushU8(value) ==
    /\ at = "idle"
    /\ Becomes(push_u8(cpu, value), "pushed8")
    /\ call' = [op |-> "push_u8", arg |-> value]
    /\ UNCHANGED <<build, ret, hooks, steps>>

PullU8 ==
    /\ at \in {"idle", "pushed8"}
    /\ LET r == pull_u8(cpu)
       IN  Becomes(r.c, "pulled8") /\ ret' = r.v
    /\ call' = [op |-> "pull_u8", arg |-> 0]
    /\ UNCHANGED <<build, hooks, steps>>

\* bytes on both sides of each end of the stack page
PageEdgeJunk ==
    (255 :> 1) @@ (256 :> 170) @@ (257 :> 85) @@ (510 :> 102)
               @@ (511 :> 153) @@ (512 :> 2)

InitStackAccess ==
    /\ Idle
    /\ \E sp0 \in Byte : reg = [RegAtOrigin EXCEPT !.sp = sp0]
    /\ mem \in {SimpleMap_default, PageEdgeJunk}

NextStackAccess ==
    \/ \E value \in {0, 171} : PushU8(value)
    \/ PullU8
    \/ \E value \in {4660, 255, 65280} : PushU16(value)
    \/ PullU16

SpecStackAccess == InitStackAccess /\ [][NextStackAccess]_vars

\* all bytes outside the stack page are the same in m1 and m2
SameOutsideStackPage(m1, m2) ==
    \A k \in ((DOMAIN m1) \cup (DOMAIN m2)) \ StackPage :
        Peek(m1, k) = Peek(m2, k)

StackSlot(sp) == STACK_ADDR_MIN + (sp % 256)

\* what the stack operations do apart from the place of the two bytes of a
\* 16-bit push relative to each other
StackAccessSteps ==
    /\ call'.op \in {"push_u8", "pull_u8", "push_u16", "pull_u16"}
         => fault' = "none" /\ SameOutsideStackPage(mem', mem)
    /\ (at = "idle" /\ call'.op = "push_u8")
         => /\ mem' = Poke(mem, STACK_ADDR_MIN + reg.sp, call'.arg)
            /\ reg'.sp = (reg.sp + 255) % 256
    /\ (at # "pulled8" /\ call'.op = "pull_u8")
         => /\ reg'.sp = (reg.sp + 1) % 256
            /\ ret' = Peek(mem, STACK_ADDR_MIN + reg'.sp)
            /\ mem' = mem
    /\ (at = "idle" /\ call'.op = "push_u16")
         => /\ mem' = Poke(Poke(mem, StackSlot(reg.sp), call'.arg \div 256),
                           StackSlot(reg.sp + 255), call'.arg % 256)
            /\ reg'.sp = (reg.sp + 254) % 256
    /\ (at = "pushed" /\ call'.op = "pull_u16")
         => /\ ret' = Peek(mem, StackSlot(reg.sp + 1))
                      + (256 * Peek(mem, StackSlot(reg.sp + 2)))
            /\ reg'.sp = (reg.sp + 2) % 256
            /\ mem' = mem

\* C37 as stated: a push writes at $0100 + SP and then decrements SP modulo
\* 256, a pull increments SP modulo 256 and then reads $0100 + SP, every
\* access stays in $0100..$01FF, and a 16-bit push stores the high byte at
\* the higher of the two addresses it writes.
StackAccessHighByteAbove ==
    [][ /\ StackAccessSteps
        /\ (at = "idle" /\ call'.op = "push_u16")
             => StackSlot(reg.sp) > StackSlot(reg.sp + 255) ]_vars

\* C37 amended: as above, but the high byte of a 16-bit push goes to
\* $0100 + SP and the low byte to $0100 + ((SP - 1) mod 256), which is the
\* next lower address for every SP but $00, where the low byte is at $01FF
\* above the high byte at $0100.
StackAccessWrapsInPage ==
    [][ /\ StackAccessSteps
        /\ (at = "idle" /\ call'.op = "push_u16")
             => IF reg.sp = 0
                THEN StackSlot(reg.sp) = 256 /\ StackSlot(reg.sp + 255) = 511
                ELSE StackSlot(reg.sp + 255) = StackSlot(reg.sp) - 1 ]_vars

\* $1234 has been pushed from SP = $00: $12 at $0100, $34 at $01FF
WitPushU16AtWrap ==
    /\ at = "pushed"
    /\ call = [op |-> "push_u16", arg |-> 4660]
    /\ reg.sp = 254
    /\ Peek(mem, 256) = 18
    /\ Peek(mem, 511) = 52
    /\ Peek(mem, 255) = 1

----------------------------------------------------------------------------
(* LDA #a; SBC #b run from the reset state                                 *)

SbcPrograms == { << 169, a, 233, b, 0 >> : a, b \in ByteSamples }

NextSbc ==
    \/ at = "new" /\ \E program \in SbcPrograms : LoadProgram(program)
    \/ InterruptReset
    \/ Run
    \/ RunCallback
    \/ FetchStep

SpecSbc == Init /\ [][NextSbc]_vars

\* the SBC of the program is about to be fetched, with the carry clear
AtSbcAfterLda ==
    /\ AtOpcode
    /\ Peek(mem, reg.pc) = 233
    /\ steps = 1
    /\ reg.p % 2 = 0

\* C38: from the reset state LDA #a; SBC #b completes for every a and b and
\* leaves V set exactly when the signed difference a - b is outside
\* -128..127.
SbcOverflowIsSignedDifference ==
    [][ (AtSbcAfterLda /\ steps' = steps + 1)
        => /\ fault' = "none"
           /\ LET diff == Signed(reg.a) - Signed(OperandAtPC)
              IN  ((reg'.p \div 64) % 2 = 1) <=> (diff < -128 \/ diff > 127)
      ]_vars

\* the same for every operand but $00 and $80
SbcOverflowIsSignedDifferenceElsewhere ==
    [][ (AtSbcAfterLda /\ steps' = steps + 1 /\ OperandAtPC \notin {0, 128})
        => /\ fault' = "none"
           /\ LET diff == Signed(reg.a) - Signed(OperandAtPC)
              IN  ((reg'.p \div 64) % 2 = 1) <=> (diff < -128 \/ diff > 127)
      ]_vars

----------------------------------------------------------------------------
(* Straight-line programs, run and disassembled.                           *)

\* NOP; LDA #5; LDA $0210; STA $10; ASL A; PHA
StraightInstrs ==
    { << 234 >>, << 169, 5 >>, << 173, 16, 2 >>, << 133, 16 >>, << 10 >>,
      << 72 >> }

StraightPrograms ==
    { Flatten(instrs) : instrs \in SeqsUpTo(StraightInstrs, MaxLines) \ {<<>>} }

NextStraight ==
    \/ at = "new" /\ \E program \in StraightPrograms : LoadProgram(program)
    \/ InterruptReset
    \/ Run
    \/ RunCallback
    \/ FetchStep

SpecStraight == Init /\ [][NextStraight]_vars

\* the n bytes of memory m from address from on, as a byte stream
ProgramWindow(m, from, n) == [i \in 1 .. n |-> Peek(m, from + i - 1)]

\* the place in program where the disassembler starts its (k+1)-th
\* instruction, counting from the instruction at pos
RECURSIVE BoundaryAt(_, _, _)
BoundaryAt(program, pos, k) ==
    IF k = 0 \/ pos > Len(program) THEN pos
    ELSE LET i == from_iter(program, pos)
         IN  IF i.fault # "none" THEN pos
             ELSE BoundaryAt(program, i.next, k - 1)

\* the bytes from_iter consumes for the instruction at PC
DisassembledSizeAtPC ==
    from_iter(ProgramWindow(mem, reg.pc, 3), 1).next - 1

\* C39: in a run of a straight-line program every opcode is fetched at the
\* offset where the disassembler starts the instruction of the same rank,
\* and each step advances PC by the number of bytes the disassembler
\* consumes for that instruction.
FetchOffsetsAreDisassemblerBoundaries ==
    [][ /\ (at' = "fetch" /\ fault' = "none")
          => reg'.pc - PRG_ROM_ADDR_MIN
               = BoundaryAt(ProgramWindow(mem', PRG_ROM_ADDR_MIN,
                                          (3 * MaxLines) + 3),
                            1, steps') - 1
        /\ (AtOpcode /\ steps' = steps + 1 /\ fault' = "none")
          => reg'.pc - reg.pc = DisassembledSizeAtPC ]_vars

\* for every table opcode that is neither a control transfer nor a stack
\* instruction, step advances PC by what the disassembler consumes
StepAdvanceIsDisassembledSizeElsewhere ==
    [][ (FallsThrough /\ steps' = steps + 1 /\ fault' = "none"
         /\ OpcodeAtPC.mnemonic \notin StackMnemonics)
        => reg'.pc - reg.pc = DisassembledSizeAtPC ]_vars

----------------------------------------------------------------------------
(* cpu/prog/parse.rs : the operand parser of the assembler.  A text is the *)
(* sequence of its characters.                                             *)

LowerCase ==
    << "a", "b", "c", "d", "e", "f", "g", "h", "i", "j", "k", "l", "m",
       "n", "o", "p", "q", "r", "s", "t", "u", "v", "w", "x", "y", "z" >>

UpperCase ==
    << "A", "B", "C", "D", "E", "F", "G", "H", "I", "J", "K", "L", "M",
       "N", "O", "P", "Q", "R", "S", "T", "U", "V", "W", "X", "Y", "Z" >>

to_uppercase(ch) ==
    IF \E i \in DOMAIN LowerCase : LowerCase[i] = ch
    THEN UpperCase[CHOOSE i \in DOMAIN LowerCase : LowerCase[i] = ch]
    ELSE ch

\* the value of a hex digit of either case, or 16 for any other character
digit_value(ch) ==
    IF \E v \in 0 .. 15 : to_uppercase(HexDigits[v + 1]) = to_uppercase(ch)
    THEN CHOOSE v \in 0 .. 15 :
             to_uppercase(HexDigits[v + 1]) = to_uppercase(ch)
    ELSE 16

\* s without its first n characters
Rest(s, n) == SubSeq(s, n + 1, Len(s))

\* the length of the longest prefix of s made of digits of the radix
RECURSIVE DigitRun(_, _)
DigitRun(s, radix) ==
    IF s = << >> \/ digit_value(s[1]) >= radix THEN 0
    ELSE 1 + DigitRun(Tail(s), radix)

RECURSIVE from_str_radix(_, _)
from_str_radix(digits, radix) ==
    IF digits = << >> THEN 0
    ELSE (radix * from_str_radix(SubSeq(digits, 1, Len(digits) - 1), radix))
         + digit_value(digits[Len(digits)])

\* a parser's Err(NomErr::Error(..)), Ok((rem, value)) and
\* Ok((rem, OperandMode::new(operand, mode)))
ParseError ==
    [ok |-> FALSE, rem |-> << >>, kind |-> "None", v |-> 0,
     mode |-> "Implicit", fault |-> "none"]

ParsedValue(rem, v) == [ParseError EXCEPT !.ok = TRUE, !.rem = rem, !.v = v]

OperandMode(rem, kind, v, mode) ==
    [ok |-> TRUE, rem |-> rem, kind |-> kind, v |-> v, mode |-> mode,
     fault |-> "none"]

tag_no_case(tag, s) ==
    IF /\ Len(s) >= Len(tag)
       /\ \A i \in DOMAIN tag : to_uppercase(s[i]) = to_uppercase(tag[i])
    THEN ParsedValue(Rest(s, Len(tag)), 0)
    ELSE ParseError

implicit(s) == OperandMode(s, "None", 0, "Implicit")

accumulator(s) ==
    LET t == tag_no_case(<< "A" >>, s)
    IN  IF t.ok THEN OperandMode(t.rem, "None", 0, "Accumulator")
        ELSE ParseError

hex_byte(s) ==
    LET n == DigitRun(s, 16)
    IN  IF n = 2 THEN ParsedValue(Rest(s, n), from_str_radix(SubSeq(s, 1, n), 16))
        ELSE ParseError

hex_double_byte(s) ==
    LET n == DigitRun(s, 16)
    IN  IF n = 4 THEN ParsedValue(Rest(s, n), from_str_radix(SubSeq(s, 1, n), 16))
        ELSE ParseError

immediate(s) ==
    LET t == tag_no_case(<< "#" >>, s)
        h == hex_byte(t.rem)
    IN  IF t.ok /\ h.ok THEN OperandMode(h.rem, "Word", h.v, "Immediate")
        ELSE ParseError

zp_addr(s) ==
    LET t == tag_no_case(<< "$" >>, s)
    IN  IF t.ok THEN hex_byte(t.rem) ELSE ParseError

abs_addr(s) ==
    LET t == tag_no_case(<< "$" >>, s)
    IN  IF t.ok THEN hex_double_byte(t.rem) ELSE ParseError

\* if anything follows then this is actually another mode
zeropage(s) ==
    LET a == zp_addr(s)
    IN  IF ~a.ok THEN ParseError
        ELSE IF a.rem # << >> /\ a.rem[1] \in {",", ")"} THEN ParseError
        ELSE OperandMode(a.rem, "Word", a.v, "ZeroPage")

\* terminated(zp_addr or abs_addr, tag_no_case(tag)) mapped to the mode
Terminated(a, tag, kind, mode) ==
    LET t == tag_no_case(tag, a.rem)
    IN  IF a.ok /\ t.ok THEN OperandMode(t.rem, kind, a.v, mode)
        ELSE ParseError

zeropage_x(s) == Terminated(zp_addr(s), << ",", "X" >>, "Word", "ZeroPageX")

zeropage_y(s) == Terminated(zp_addr(s), << ",", "Y" >>, "Word", "ZeroPageY")

\* i8::from_str_radix(sign + digits, 10).unwrap() as u8
relative(s) ==
    LET t == tag_no_case(<< "*" >>, s)
        r == t.rem
        n == DigitRun(Tail(r), 10)
        d == from_str_radix(SubSeq(r, 2, n + 1), 10)
        i == IF r[1] = "-" THEN 0 - d ELSE d
    IN  IF ~t.ok \/ r = << >> THEN ParseError
        ELSE IF r[1] \notin {"+", "-"} \/ n = 0 THEN ParseError
        ELSE IF i < -128 \/ i > 127
        THEN [ParseError EXCEPT !.fault = "UnwrapErr"]
        ELSE OperandMode(Rest(r, n + 1), "Word", (i + U8) % U8, "Relative")

absolute(s) ==
    LET a == abs_addr(s)
    IN  IF ~a.ok THEN ParseError
        ELSE IF a.rem # << >> /\ a.rem[1] \in {",", ")"} THEN ParseError
        ELSE OperandMode(a.rem, "DoubleWord", a.v, "Absolute")

absolute_x(s) ==
    Terminated(abs_addr(s), << ",", "X" >>, "DoubleWord", "AbsoluteX")

absolute_y(s) ==
    Terminated(abs_addr(s), << ",", "Y" >>, "DoubleWord", "AbsoluteY")

\* preceded(tag_no_case("("), terminated(zp_addr, tag_no_case(tag)))
Parenthesised(s, tag, mode) ==
    LET t == tag_no_case(<< "(" >>, s)
    IN  IF t.ok THEN Terminated(zp_addr(t.rem), tag, "Word", mode)
        ELSE ParseError

indirect(s) == Parenthesised(s, << ")" >>, "Indirect")

indirect_x(s) == Parenthesised(s, << ",", "X", ")" >>, "IndirectX")

indirect_y(s) == Parenthesised(s, << ")", ",", "Y" >>, "IndirectY")

\* alt((accumulator, immediate, ..., implicit)): the first parser that
\* succeeds; a panic inside a parser ends the call
RECURSIVE alt(_, _)
alt(results, k) ==
    IF results[k].fault # "none" \/ results[k].ok \/ k = Len(results)
    THEN results[k]
    ELSE alt(results, k + 1)

operand(s) ==
    alt(<< accumulator(s), immediate(s), zeropage(s), zeropage_x(s),
           zeropage_y(s), relative(s), absolute(s), absolute_x(s),
           absolute_y(s), indirect(s), indirect_x(s), indirect_y(s),
           implicit(s) >>, 1)

\* a call of operand on the text s
ParseOperand(s) ==
    /\ at = "idle"
    /\ LET r == operand(s)
       IN  /\ ret' = r
           /\ fault' = r.fault
           /\ at' = IF r.fault # "none" THEN "panicked" ELSE "parsed"
    /\ call' = [op |-> "operand", arg |-> s]
    /\ UNCHANGED <<reg, mem, build, hooks, steps>>

\* operand texts of the forms the assembler knows
OperandForms ==
    { << "$", "3", "4" >>,
      << "$", "f", "F" >>,
      << "$", "3", "4", ",", "X" >>,
      << "$", "3", "4", ",", "y" >>,
      << "$", "3", "4", "2", "3" >>,
      << "$", "3", "4", "2", "3", ",", "X" >>,
      << "$", "3", "4", "2", "3", ",", "Y" >>,
      << "#", "0", "a" >>,
      << "#", "F", "F" >>,
      << "(", "$", "3", "4", ",", "X", ")" >>,
      << "(", "$", "3", "4", ")", ",", "Y" >>,
      << "*", "+", "5" >>,
      << "*", "-", "2", "3" >>,
      << "*", "-", "1", "2", "8" >>,
      << "*", "+", "1", "2", "7" >>,
      << "*", "+", "1", "2", "8" >>,
      << "A" >>,
      << "a" >> }

\* the empty text and texts of none of these forms
NoOperands ==
    { << >>,
      << "(", "$", "3", "4", ")" >>,
      << "#", "1" >>,
      << "#", "1", "2", "3" >>,
      << "$", "3" >>,
      << "$", "3", "4", "5" >>,
      << "(", "3", "4", ")" >>,
      << "*", "5" >>,
      << "L", "D", "A" >> }

\* an address followed by a stray "," or ")"
StrayOperands ==
    { << "$", "3", "4", ")" >>,
      << "$", "3", "4", ",", "Z" >>,
      << "$", "3", "4", "2", "3", ")" >> }

\* what may follow an operand on its line
Trailers ==
    { << >>,
      << " ", ";", "c" >>,
      << "\n", "L", "D", "A" >> }

OperandTexts ==
    { h \o t : h \in OperandForms \cup NoOperands \cup StrayOperands,
                t \in Trailers }

InitParse ==
    /\ Idle
    /\ reg = RegisterSet_default
    /\ mem = SimpleMap_default

NextParse == \E s \in OperandTexts : ParseOperand(s)

SpecParse == InitParse /\ [][NextParse]_vars

\* the form of the list "$hh", "$hh,X", ... "A" that the text s starts
\* with, the longest first: its mode, its operand and the characters it
\* takes; Implicit taking nothing when s starts with none of them
ListedForm(s) ==
    LET at_(k, tag) == tag_no_case(tag, Rest(s, k - 1)).ok
        run(k)      == DigitRun(Rest(s, k - 1), 16)
        hex(k, n)   == from_str_radix(SubSeq(s, k, k + n - 1), 16)
        digits      == DigitRun(Rest(s, 2), 10)
        offset      == from_str_radix(SubSeq(s, 3, digits + 2), 10)
        form(mode, kind, v, used) ==
            [mode |-> mode, kind |-> kind, v |-> v, used |-> used]
    IN  CASE at_(1, << "(", "$" >>) /\ run(3) = 2 /\ at_(5, << ",", "X", ")" >>)
               -> form("IndirectX", "Word", hex(3, 2), 7)
          [] at_(1, << "(", "$" >>) /\ run(3) = 2 /\ at_(5, << ")", ",", "Y" >>)
               -> form("IndirectY", "Word", hex(3, 2), 7)
          [] at_(1, << "$" >>) /\ run(2) = 4 /\ at_(6, << ",", "X" >>)
               -> form("AbsoluteX", "DoubleWord", hex(2, 4), 7)
          [] at_(1, << "$" >>) /\ run(2) = 4 /\ at_(6, << ",", "Y" >>)
               -> form("AbsoluteY", "DoubleWord", hex(2, 4), 7)
          [] at_(1, << "$" >>) /\ run(2) = 4
               /\ ~at_(6, << ",", "X" >>) /\ ~at_(6, << ",", "Y" >>)
               -> form("Absolute", "DoubleWord", hex(2, 4), 5)
          [] at_(1, << "$" >>) /\ run(2) = 2 /\ at_(4, << ",", "X" >>)
               -> form("ZeroPageX", "Word", hex(2, 2), 5)
          [] at_(1, << "$" >>) /\ run(2) = 2 /\ at_(4, << ",", "Y" >>)
               -> form("ZeroPageY", "Word", hex(2, 2), 5)
          [] at_(1, << "$" >>) /\ run(2) = 2
               /\ ~at_(4, << ",", "X" >>) /\ ~at_(4, << ",", "Y" >>)
               -> form("ZeroPage", "Word", hex(2, 2), 3)
          [] at_(1, << "#" >>) /\ run(2) = 2
               -> form("Immediate", "Word", hex(2, 2), 3)
          [] at_(1, << "*", "+" >>) /\ digits > 0
               -> form("Relative", "Word", offset % 256, digits + 2)
          [] at_(1, << "*", "-" >>) /\ digits > 0
               -> form("Relative", "Word", (0 - offset) % 256, digits + 2)
          [] at_(1, << "A" >>)
               -> form("Accumulator", "None", 0, 1)
          [] OTHER
               -> form("Implicit", "None", 0, 0)

\* the parser gave the listed form of the text and left the rest of it
ParsedAsListed ==
    LET f == ListedForm(call'.arg)
    IN  /\ fault' = "none"
        /\ ret'.ok
        /\ ret'.mode = f.mode
        /\ ret'.kind = f.kind
        /\ ret'.v = f.v
        /\ ret'.rem = Rest(call'.arg, f.used)

ListedTexts == { h \o t : h \in OperandForms \cup NoOperands, t \in Trailers }

\* C40: the operand parser gives every text the mode and operand of the
\* listed form it starts with, the longest one, and leaves the rest; a text
\* of none of the forms is Implicit with nothing consumed.
OperandParserFollowsList ==
    [][ (call'.op = "operand" /\ call'.arg \in ListedTexts)
        => ParsedAsListed ]_vars

\* the texts on which the parser departs from the list: "($hh),Y", a
\* relative offset above 127 and "($hh)"
DepartingOperands ==
    { << "(", "$", "3", "4", ")", ",", "Y" >>, << "*", "+", "1", "2", "8" >>,
      << "(", "$", "3", "4", ")" >> }

\* on every other text the parser follows the list
OperandParserFollowsListElsewhere ==
    [][ (/\ call'.op = "operand"
         /\ call'.arg \in ListedTexts
         /\ call'.arg \notin { h \o t : h \in DepartingOperands, t \in Trailers })
        => ParsedAsListed ]_vars

====
